---- MODULE Spec2Model ----
(***************************************************************************)
(* PedalAssistant: AlertHandler, AudioMixer, JoystickReader, AxisWidget.   *)
(*                                                                         *)
(* Floats in [0,1] (thresholds, axis values, volume) are fixed-point       *)
(* hundredths (0..100); audio samples are fixed-point thousandths          *)
(* (1.0 = 1000).  Object references are small naturals; 0 is None.         *)
(***************************************************************************)
EXTENDS Integers, Sequences, FiniteSets, TLC

\* ------------------------------------------------------------------ bounds
MaxHandlers == 2      \* AlertHandler objects created in one run
MaxFrames == 2        \* largest buffer length the backend asks for
MaxBuffers == 2       \* buffers synthesized in one run
MaxOps == 4           \* control-thread operations in one run of the widget
MaxMixerOps == 3      \* AudioMixer methods called in one run of the mixer
MaxStreams == 3       \* output streams the backend creates in one run
MaxSamplerOps == 3    \* JoystickReader methods called in one run of the reader
MaxThreads == 2       \* polling threads started in one run
MaxCycles == 2        \* poll cycles begun in one run
MaxLockOps == 2       \* AudioMixer methods called in one run under fair scheduling
MaxPhaseBuffers == 100 \* buffers processed in one run of the phase accumulator

\* --------------------------------------------------------- program constants
sample_rate == 44100

Thresholds == {0, 50, 100}
AxisInputs == {-50, 0, 50, 100, 150}
Frequencies == {440, 880}
Volumes == {50, 100}
Waveforms == {"sine", "sawtooth", "square"}
\* input devices and their axis counts; raw axis readings in hundredths
Devices == {1, 2}
NumAxes(d) == IF d = 1 THEN 2 ELSE 1
Raw == {-100, 0, 100}
ShortWaveforms == {"sine", "saw", "square"}

VARIABLES
    \* AlertHandler objects (the heap): ref -> record
    alert_handlers,
    \* AxisWidget
    handlers,           \* self.handlers: sequence of refs
    value,              \* self.value
    \* AudioMixer
    mixer_lock,         \* self._lock: "free" or the thread holding it
    phases,             \* self._phases: handler id -> phase
    active_handlers,    \* self._active_handlers: handler id -> ref
    stream,             \* self._stream: 0 (None) or a stream handle
    open_streams,       \* backend: handles of streams that are running
    streams_made,       \* backend: number of streams created so far
    device_change_pending,
    \* audio thread
    audio_pc,           \* "idle" or "mixing" (inside the locked section)
    cb_frames,          \* frames argument of the last callback
    outdata,            \* the buffer written by the last callback
    cb_lock_seen,       \* the lock as the last callback found it
    buffers,            \* callbacks that synthesized so far
    cb_fresh,           \* outdata was written after the last control operation
    \* control thread inside an AudioMixer method
    mixer_op,           \* [op, id]: the method and its handler argument
    mixer_pc,           \* "idle" or the step of mixer_op it is at
    \* JoystickReader
    js_lock,            \* self._lock: "free", "control" or a polling thread
    running,            \* self._running
    thread,             \* self._thread: 0 (None) or a thread
    joystick,           \* self._joystick: 0 (None) or the device it opens
    axis_values,        \* self._axis_values
    num_axes,           \* self._num_axes
    handle_valid,       \* the handle in self._joystick survives (no quit since)
    snapshot,           \* what get_axis_values returned last
    snap_fresh,         \* it returned after the last JoystickReader method
    threads,            \* every thread started: its position and locals
    cycles,             \* poll cycles begun so far
    cycle_len,          \* per poll cycle, the number of axes it set out to read
    js_op,              \* control thread inside a JoystickReader method
    js_pc,              \* "idle" or the step of js_op it is at
    js_last,            \* the JoystickReader method that returned last
    js_ret,             \* and what it returned
    js_ops,             \* JoystickReader methods called so far
    \* observation of the last control-thread operation
    last_op,            \* [name, h]: the handler that ran last
    calls,              \* mixer calls and list edits it issued, in order
    was_triggered,      \* is_triggered of every handler before it ran
    pre_mixer,          \* active set and phase map before it ran
    ops,                \* control-thread operations so far
    \* observation of device-change handling
    reopens,            \* reopens check_device_change did for the current burst
    \* a pure function applied to drawn arguments
    fn_args,            \* the arguments
    fn_result,          \* <<>> or <<the value returned>>
    \* observation of the trigger evaluation
    prev_value,         \* self.value before the last control-thread operation
    \* HandlerWidget
    entry_text,         \* the text of the entry field committed last
    range_slider,       \* per handler, the RangeSlider of its widget
    \* PedalAssistantApp
    current_device_selection,  \* self._current_device_selection: 0 (None) or a device
    app_pc,             \* "idle" or the JoystickReader call a method waits for
    app_arg,            \* the selection that method is handling
    \* history of the device-change notifications
    notified            \* a notification arrived and no reopen has started since

mixer_vars == <<mixer_lock, phases, active_handlers, stream, open_streams,
                streams_made, device_change_pending>>
audio_vars == <<audio_pc, cb_frames, outdata, cb_lock_seen, buffers, cb_fresh>>
widget_vars == <<alert_handlers, handlers, value>>
obs_vars == <<last_op, calls, was_triggered, pre_mixer, ops>>
ctl_vars == <<mixer_op, mixer_pc>>
reader_vars == <<js_lock, running, thread, joystick, axis_values, num_axes,
                 handle_valid>>
poll_vars == <<threads, cycles, cycle_len>>
js_ctl_vars == <<js_op, js_pc, js_last, js_ret, js_ops, snapshot, snap_fresh>>
app_vars == <<mixer_vars, audio_vars, widget_vars, obs_vars, ctl_vars>>
sampler_vars == <<reader_vars, poll_vars, js_ctl_vars>>
burst_vars == <<reopens>>
fn_vars == <<fn_args, fn_result>>
tick_vars == <<prev_value>>
ui_vars == <<entry_text, range_slider>>
select_vars == <<current_device_selection, app_pc, app_arg>>
notify_vars == <<notified>>
aux_vars == <<burst_vars, fn_vars, tick_vars, ui_vars, select_vars, notify_vars>>
vars == <<mixer_vars, audio_vars, widget_vars, obs_vars, ctl_vars, sampler_vars, aux_vars>>

\* ------------------------------------------------------------------ helpers
Abs(x) == IF x < 0 THEN -x ELSE x
Sign(x) == IF x > 0 THEN 1 ELSE IF x < 0 THEN -1 ELSE 0
\* division of the magnitude, as float division rounds symmetrically
TruncDiv(a, b) == Sign(a) * (Abs(a) \div b)
Max(a, b) == IF a > b THEN a ELSE b
Min(a, b) == IF a < b THEN a ELSE b
Range(s) == {s[i] : i \in DOMAIN s}
Zeros(n) == [i \in 1..n |-> 0]
EmptyMap == [i \in {} |-> 0]
MapPut(m, k, v) == [i \in DOMAIN m \cup {k} |-> IF i = k THEN v ELSE m[i]]
MapDel(m, k) == [i \in DOMAIN m \ {k} |-> m[i]]

\* ------------------------------------------------------------- AlertHandler
AlertHandler(id) ==
    [id |-> id, min_threshold |-> 100, max_threshold |-> 100,
     frequency |-> 440, volume |-> 50, waveform |-> "sine",
     is_triggered |-> FALSE]

\* a variant with an exclusive upper bound
check_trigger_half_open(h, v) == h.min_threshold <= v /\ v < h.max_threshold

\* a variant with an exclusive lower bound
check_trigger_exclusive(h, v) == h.min_threshold < v /\ v <= h.max_threshold

check_trigger(h, v) == h.min_threshold <= v /\ v <= h.max_threshold

\* --------------------------------------------------------------- AudioMixer
\* The mixer state the lock protects, as a record [active, phases].
Mixer(a, p) == [active |-> a, phases |-> p]

\* a variant that resumes from the accumulator the id had left
start_handler_resume(m, ref, id) ==
    IF id \notin DOMAIN m.active
    THEN Mixer(MapPut(m.active, id, ref),
               IF id \in DOMAIN m.phases THEN m.phases
               ELSE MapPut(m.phases, id, 0))
    ELSE m

\* a variant in which a new tone replaces the ones playing
start_handler_exclusive(m, ref, id) ==
    IF id \notin DOMAIN m.active
    THEN Mixer(MapPut(EmptyMap, id, ref), MapPut(m.phases, id, 0))
    ELSE m

\* a variant that restarts the tone on every call
start_handler_restart(m, ref, id) ==
    Mixer(MapPut(m.active, id, ref), MapPut(m.phases, id, 0))

start_handler(m, ref, id) ==
    IF id \notin DOMAIN m.active
    THEN Mixer(MapPut(m.active, id, ref), MapPut(m.phases, id, 0))
    ELSE m

stop_handler(m, id) ==
    IF id \in DOMAIN m.active
    THEN Mixer(MapDel(m.active, id), m.phases)
    ELSE m

\* a variant that also resets the phase accumulator
update_handler_reset(m, ref, id) ==
    IF id \in DOMAIN m.active
    THEN Mixer(MapPut(m.active, id, ref), MapPut(m.phases, id, 0))
    ELSE m

\* a variant that stores the handler whether or not it is active
update_handler_upsert(m, ref, id) ==
    Mixer(MapPut(m.active, id, ref), m.phases)

update_handler(m, ref, id) ==
    IF id \in DOMAIN m.active
    THEN Mixer(MapPut(m.active, id, ref), m.phases)
    ELSE m

\* sin(2*pi*x/sample_rate) in thousandths, x a position in the cycle
\* (0 <= x < sample_rate): Bhaskara's rational approximation of the sine,
\* evaluated on thousandths of a half cycle.
SinMilli(x) ==
    LET half == sample_rate \div 2
        a == IF x < half THEN x ELSE x - half
        u == (a * 1000) \div half
        p == u * (1000 - u)
        mag == (16 * p) \div ((5000000 - 4 * p) \div 1000)
    IN  IF x < half THEN mag ELSE -mag

\* one sample of the waveform at sample index k, in thousandths
Wave(waveform, freq, k) ==
    LET x == (freq * k) % sample_rate
    IN  CASE waveform = "sine" -> SinMilli(x)
          [] waveform = "sawtooth" -> ((2000 * x) \div sample_rate) - 1000
          [] waveform = "square" -> 1000 * Sign(SinMilli(x))
          [] OTHER -> SinMilli(x)

\* the phase _generate_tone starts from: 0.0 when the id has no entry
tone_phase(p, id) == IF id \in DOMAIN p THEN p[id] ELSE 0

\* samples returned by _generate_tone for handler record h
generate_tone(h, frames, phase) ==
    [i \in 1..frames |->
        TruncDiv(Wave(h.waveform, h.frequency, (i - 1) + phase) * h.volume, 100)]

\* a variant that lets the accumulator grow without wrapping
advance_phases_unwrapped(m, heap, frames) ==
    LET ids == {heap[m.active[k]].id : k \in DOMAIN m.active}
    IN  [i \in DOMAIN m.phases \cup ids |->
            IF i \in ids THEN tone_phase(m.phases, i) + frames
            ELSE m.phases[i]]

\* self._phases after _generate_tone ran for every active handler
advance_phases(m, heap, frames) ==
    LET ids == {heap[m.active[k]].id : k \in DOMAIN m.active}
    IN  [i \in DOMAIN m.phases \cup ids |->
            IF i \in ids THEN (tone_phase(m.phases, i) + frames) % sample_rate
            ELSE m.phases[i]]

RECURSIVE SumTones(_, _, _, _)
SumTones(keys, m, heap, frames) ==
    IF keys = {} THEN Zeros(frames)
    ELSE LET k == CHOOSE x \in keys : TRUE
             h == heap[m.active[k]]
             tone == generate_tone(h, frames, tone_phase(m.phases, h.id))
             rest == SumTones(keys \ {k}, m, heap, frames)
         IN  [i \in 1..frames |-> rest[i] + tone[i]]

RECURSIVE PeakOf(_, _)
PeakOf(buf, n) == IF n = 0 THEN 0 ELSE Max(Abs(buf[n]), PeakOf(buf, n - 1))

\* a variant that writes the sum as it is
mix_buffer_unnormalized(m, heap, frames) ==
    IF DOMAIN m.active # {}
    THEN SumTones(DOMAIN m.active, m, heap, frames)
    ELSE Zeros(frames)

\* a variant that writes nothing when no handler is active
mix_buffer_skip_empty(m, heap, frames) ==
    IF DOMAIN m.active # {}
    THEN LET mixed == SumTones(DOMAIN m.active, m, heap, frames)
             max_val == PeakOf(mixed, frames)
         IN  IF max_val > 1000
             THEN [i \in 1..frames |-> TruncDiv(mixed[i] * 1000, max_val)]
             ELSE mixed
    ELSE <<>>

\* the buffer the callback writes once it holds the lock
mix_buffer(m, heap, frames) ==
    IF DOMAIN m.active # {}
    THEN LET mixed == SumTones(DOMAIN m.active, m, heap, frames)
             max_val == PeakOf(mixed, frames)
         IN  IF max_val > 1000
             THEN [i \in 1..frames |-> TruncDiv(mixed[i] * 1000, max_val)]
             ELSE mixed
    ELSE Zeros(frames)

\* a variant that enters the locked section whatever acquire returned
try_acquire_ignored(lock) == TRUE

\* lock.acquire(blocking=False): succeeds exactly when nobody holds the lock
try_acquire(lock) == lock = "free"

\* _audio_callback up to the acquisition: on success the callback is inside
\* the locked section, on failure it fills the buffer with zeros and returns
AudioCallbackBegin(frames) ==
    /\ audio_pc = "idle"
    /\ open_streams # {}
    /\ cb_lock_seen' = mixer_lock
    /\ IF try_acquire(mixer_lock)
       THEN /\ buffers < MaxBuffers
            /\ mixer_lock' = "audio"
            /\ audio_pc' = "mixing"
            /\ cb_frames' = frames
            /\ UNCHANGED <<outdata, cb_fresh>>
       ELSE /\ outdata' = Zeros(frames)
            /\ cb_frames' = frames
            /\ cb_fresh' = TRUE
            /\ UNCHANGED <<mixer_lock, audio_pc>>
    /\ UNCHANGED <<phases, active_handlers, stream, open_streams, streams_made,
                   device_change_pending, buffers, widget_vars, obs_vars, ctl_vars, sampler_vars, aux_vars>>

\* the locked section of _audio_callback and the release in its finally
AudioCallbackMix ==
    /\ audio_pc = "mixing"
    /\ LET m == Mixer(active_handlers, phases)
       IN  /\ outdata' = mix_buffer(m, alert_handlers, cb_frames)
           /\ phases' = advance_phases(m, alert_handlers, cb_frames)
    /\ buffers' = buffers + 1
    /\ cb_fresh' = TRUE
    /\ mixer_lock' = "free"
    /\ audio_pc' = "idle"
    /\ UNCHANGED <<active_handlers, stream, open_streams, streams_made,
                   device_change_pending, cb_lock_seen, cb_frames,
                   widget_vars, obs_vars, ctl_vars, sampler_vars, aux_vars>>

\* ---------------------------------------------------------------- AxisWidget
\* state threaded through a control-thread handler: the handler objects, the
\* mixer and the calls issued so far
WidgetState(heap, m, cs) == [heap |-> heap, mixer |-> m, calls |-> cs]
Call(op, id) == [op |-> op, id |-> id]

\* a level-triggered variant: acts on every tick the handler is in range
trigger_changed_level(is_triggered, was) == is_triggered \/ was

\* update_value: "if is_triggered != was_triggered"
trigger_changed(is_triggered, was) == is_triggered # was

RECURSIVE update_value_loop(_, _, _, _)
update_value_loop(st, hs, i, v) ==
    IF i > Len(hs) THEN st
    ELSE LET ref == hs[i]
             h == st.heap[ref]
             was == h.is_triggered
             is_triggered == check_trigger(h, v)
         IN  IF trigger_changed(is_triggered, was)
             THEN update_value_loop(
                    WidgetState(
                      [st.heap EXCEPT ![ref].is_triggered = is_triggered],
                      IF is_triggered THEN start_handler(st.mixer, ref, h.id)
                      ELSE stop_handler(st.mixer, h.id),
                      Append(st.calls,
                             Call(IF is_triggered THEN "start" ELSE "stop", h.id))),
                    hs, i + 1, v)
             ELSE update_value_loop(st, hs, i + 1, v)

\* _on_handler_update: update_handler for every triggered handler of the axis
RECURSIVE on_handler_update(_, _, _)
on_handler_update(st, hs, i) ==
    IF i > Len(hs) THEN st
    ELSE LET ref == hs[i]
             h == st.heap[ref]
         IN  IF h.is_triggered
             THEN on_handler_update(
                    WidgetState(st.heap, update_handler(st.mixer, ref, h.id),
                                Append(st.calls, Call("update", h.id))),
                    hs, i + 1)
             ELSE on_handler_update(st, hs, i + 1)

TriggeredNow == [r \in DOMAIN alert_handlers |-> alert_handlers[r].is_triggered]

\* a control-thread handler ran to completion and left st, the entry text it
\* read and the range sliders; every mixer call takes the mixer lock, so the
\* handler needs it free when it issues one
CommitWidget(name, id, st, hs, v, text, sliders) ==
    /\ ops < MaxOps
    /\ mixer_pc = "idle"
    /\ (\E i \in DOMAIN st.calls : st.calls[i].op # "remove") => mixer_lock = "free"
    /\ alert_handlers' = st.heap
    /\ active_handlers' = st.mixer.active
    /\ phases' = st.mixer.phases
    /\ handlers' = hs
    /\ value' = v
    /\ last_op' = Call(name, id)
    /\ calls' = st.calls
    /\ was_triggered' = TriggeredNow
    /\ pre_mixer' = Mixer(active_handlers, phases)
    /\ ops' = ops + 1
    /\ cb_fresh' = FALSE
    /\ prev_value' = value
    /\ entry_text' = text
    /\ range_slider' = sliders
    /\ UNCHANGED <<mixer_lock, stream, open_streams, streams_made,
                   device_change_pending, audio_pc, cb_frames, outdata,
                   cb_lock_seen, buffers, ctl_vars,
                   sampler_vars, burst_vars, fn_vars, select_vars,
                   notify_vars>>

\* a handler that reads no entry field and touches no range slider
Commit(name, id, st, hs, v) ==
    CommitWidget(name, id, st, hs, v, entry_text, range_slider)

Now == WidgetState(alert_handlers, Mixer(active_handlers, phases), <<>>)

\* a variant that also looks at the value half way from the previous one
UpdateValue_interpolated(v) ==
    LET new_value == Max(0, Min(100, v))
        mid == (value + new_value) \div 2
        at_mid == update_value_loop(Now, handlers, 1, mid)
    IN  Commit("update_value", 0,
               IF at_mid.calls # <<>> THEN at_mid
               ELSE update_value_loop(Now, handlers, 1, new_value),
               handlers, new_value)

UpdateValue(v) ==
    LET new_value == Max(0, Min(100, v))
    IN  Commit("update_value", 0,
               update_value_loop(Now, handlers, 1, new_value),
               handlers, new_value)

\* _add_handler: the new handler gets an id that no other handler has
AddHandler ==
    /\ Len(alert_handlers) < MaxHandlers
    /\ LET ref == Len(alert_handlers) + 1
       IN  Commit("_add_handler", ref,
                  WidgetState(Append(alert_handlers, AlertHandler(ref)),
                              Now.mixer, <<>>),
                  Append(handlers, ref), value)

\* a variant that drops the handler without stopping its tone
DeleteHandler_no_stop(ref) ==
    /\ ref \in Range(handlers)
    /\ LET id == alert_handlers[ref].id
           keep(r) == alert_handlers[r].id # id
       IN  Commit("_delete_handler", id,
                  WidgetState(alert_handlers, Now.mixer, <<Call("remove", id)>>),
                  SelectSeq(handlers, keep), value)

\* _delete_handler: stop the tone, then drop the handler from the list
DeleteHandler(ref) ==
    /\ ref \in Range(handlers)
    /\ LET id == alert_handlers[ref].id
           stopped == WidgetState(alert_handlers, stop_handler(Now.mixer, id),
                                  <<Call("stop", id)>>)
           keep(r) == alert_handlers[r].id # id
       IN  Commit("_delete_handler", id,
                  WidgetState(stopped.heap, stopped.mixer,
                              Append(stopped.calls, Call("remove", id))),
                  SelectSeq(handlers, keep), value)

\* a variant that evaluates the trigger of the edited handler again
Edited_reevaluates(name, ref, heap) ==
    /\ ref \in Range(handlers)
    /\ Commit(name, alert_handlers[ref].id,
              on_handler_update(
                  WidgetState([heap EXCEPT ![ref].is_triggered =
                                   check_trigger(heap[ref], value)],
                              Now.mixer, <<>>),
                  handlers, 1),
              handlers, value)

\* a variant that stores the field and notifies nobody
Edited_silent(name, ref, heap) ==
    /\ ref \in Range(handlers)
    /\ Commit(name, alert_handlers[ref].id,
              WidgetState(heap, Now.mixer, <<>>), handlers, value)

\* a HandlerWidget callback stored heap (the handler with one field changed)
\* and called on_update
Edited(name, ref, heap) ==
    /\ ref \in Range(handlers)
    /\ Commit(name, alert_handlers[ref].id,
              on_handler_update(WidgetState(heap, Now.mixer, <<>>), handlers, 1),
              handlers, value)

OnRangeChange(ref, min_val, max_val) ==
    /\ ref \in DOMAIN alert_handlers
    /\ min_val <= max_val
    /\ Edited("_on_range_change", ref,
              [alert_handlers EXCEPT ![ref].min_threshold = min_val,
                                     ![ref].max_threshold = max_val])

OnFreqSliderChange(ref, f) ==
    /\ ref \in DOMAIN alert_handlers
    /\ Edited("_on_freq_slider_change", ref,
              [alert_handlers EXCEPT ![ref].frequency = f])

OnVolSliderChange(ref, vol) ==
    /\ ref \in DOMAIN alert_handlers
    /\ Edited("_on_vol_slider_change", ref,
              [alert_handlers EXCEPT ![ref].volume = vol])

waveform_from_short(short) ==
    CASE short = "sine" -> "sine"
      [] short = "saw" -> "sawtooth"
      [] short = "square" -> "square"
      [] OTHER -> short

OnWaveformChange(ref, short) ==
    /\ ref \in DOMAIN alert_handlers
    /\ Edited("_on_waveform_change", ref,
              [alert_handlers EXCEPT ![ref].waveform = waveform_from_short(short)])

\* ---------------------------------------------------------- specification
\* AudioMixer.__init__: empty maps, _open_stream either opened a stream or
\* failed and left none
MixerInit ==
    /\ mixer_lock = "free"
    /\ phases = EmptyMap
    /\ active_handlers = EmptyMap
    /\ device_change_pending = FALSE
    /\ \/ stream = 1 /\ open_streams = {1} /\ streams_made = 1
       \/ stream = 0 /\ open_streams = {} /\ streams_made = 0

AudioInit ==
    /\ audio_pc = "idle"
    /\ cb_frames = 0
    /\ cb_lock_seen = "free"
    /\ outdata = <<>>
    /\ buffers = 0
    /\ cb_fresh = FALSE

ControlInit ==
    /\ last_op = Call("__init__", 0)
    /\ calls = <<>>
    /\ was_triggered = <<>>
    /\ pre_mixer = Mixer(EmptyMap, EmptyMap)
    /\ ops = 0
    /\ mixer_op = Call("idle", 0)
    /\ mixer_pc = "idle"
    /\ reopens = 0
    /\ prev_value = 0
    /\ current_device_selection = 0
    /\ app_pc = "idle"
    /\ app_arg = 0
    /\ notified = FALSE

\* no HandlerWidget exists
ObsInit ==
    /\ ControlInit
    /\ entry_text = ""
    /\ range_slider = <<>>

\* no function under application
FnInit ==
    /\ fn_args = <<>>
    /\ fn_result = <<>>

\* JoystickReader.__init__
SamplerInit ==
    /\ js_lock = "free"
    /\ running = FALSE
    /\ thread = 0
    /\ joystick = 0
    /\ axis_values = <<>>
    /\ num_axes = 0
    /\ handle_valid = FALSE
    /\ threads = <<>>
    /\ cycles = 0
    /\ cycle_len = <<>>
    /\ js_op = [op |-> "idle", arg |-> 0]
    /\ js_pc = "idle"
    /\ js_last = "__init__"
    /\ js_ret = 0
    /\ js_ops = 0
    /\ snapshot = <<>>
    /\ snap_fresh = FALSE

Init ==
    /\ MixerInit
    /\ AudioInit
    /\ ObsInit
    /\ SamplerInit
    /\ FnInit
    /\ alert_handlers = <<>>
    /\ handlers = <<>>
    /\ value = 0

Next ==
    \/ \E v \in AxisInputs : UpdateValue(v)
    \/ AddHandler
    \/ \E ref \in 1..MaxHandlers : DeleteHandler(ref)
    \/ \E ref \in 1..MaxHandlers, a, b \in Thresholds : OnRangeChange(ref, a, b)
    \/ \E ref \in 1..MaxHandlers, f \in Frequencies : OnFreqSliderChange(ref, f)
    \/ \E ref \in 1..MaxHandlers, vol \in Volumes : OnVolSliderChange(ref, vol)
    \/ \E ref \in 1..MaxHandlers, w \in ShortWaveforms : OnWaveformChange(ref, w)
    \/ \E frames \in 1..MaxFrames : AudioCallbackBegin(frames)
    \/ AudioCallbackMix

Spec == Init /\ [][Next]_vars

\* ------------------------------------------- AudioMixer driven as a component
\* The control thread calls the AudioMixer methods one at a time; each runs
\* as the steps between which the audio thread can be scheduled.

\* the handler records passed to the mixer: two records share id 1
MixerHandlers ==
    << [AlertHandler(1) EXCEPT !.is_triggered = TRUE],
       [AlertHandler(1) EXCEPT !.frequency = 880, !.volume = 100,
                               !.waveform = "square"],
       [AlertHandler(2) EXCEPT !.waveform = "sawtooth", !.volume = 100] >>

MixerCallInit ==
    /\ MixerInit
    /\ AudioInit
    /\ ObsInit
    /\ SamplerInit
    /\ FnInit
    /\ alert_handlers = MixerHandlers
    /\ handlers = <<>>
    /\ value = 0

\* the caller enters a method: name, handler argument, first step
Enter(name, arg, pc) ==
    /\ mixer_pc = "idle"
    /\ ops < MaxMixerOps
    /\ mixer_op' = Call(name, arg)
    /\ mixer_pc' = pc
    /\ ops' = ops + 1
    /\ UNCHANGED <<mixer_vars, audio_vars, widget_vars, last_op, calls,
                   was_triggered, pre_mixer,
                   sampler_vars, aux_vars>>

CallStartHandler(ref) == Enter("start_handler", ref, "acquire")
CallStopHandler(ref) == Enter("stop_handler", ref, "acquire")
CallUpdateHandler(ref) == Enter("update_handler", ref, "acquire")
CallReinitialize == Enter("reinitialize", 0, "close")
CallCleanup == Enter("cleanup", 0, "acquire")

\* a variant that enters the with-block without waiting for the lock
AcquireLock_unguarded ==
    /\ mixer_pc = "acquire"
    /\ mixer_lock' = "control"
    /\ mixer_pc' = "locked"
    /\ UNCHANGED <<phases, active_handlers, stream, open_streams, streams_made,
                   device_change_pending, audio_vars, widget_vars, obs_vars,
                   mixer_op, sampler_vars, aux_vars>>

\* "with self._lock:" blocks until the lock is free
AcquireLock ==
    /\ mixer_pc = "acquire"
    /\ mixer_lock = "free"
    /\ mixer_lock' = "control"
    /\ mixer_pc' = "locked"
    /\ UNCHANGED <<phases, active_handlers, stream, open_streams, streams_made,
                   device_change_pending, audio_vars, widget_vars, obs_vars,
                   mixer_op,
                   sampler_vars, aux_vars>>

\* the body of a with-block left the mixer as m
LockedBody(name, m) ==
    /\ mixer_pc = "locked"
    /\ mixer_op.op = name
    /\ active_handlers' = m.active
    /\ phases' = m.phases
    /\ mixer_pc' = "release"
    /\ last_op' = mixer_op
    /\ calls' = <<>>
    /\ pre_mixer' = Mixer(active_handlers, phases)
    /\ cb_fresh' = FALSE
    /\ UNCHANGED <<mixer_lock, device_change_pending, audio_pc, cb_frames,
                   outdata, cb_lock_seen, buffers, widget_vars, was_triggered,
                   ops, mixer_op,
                   sampler_vars, fn_vars, tick_vars, ui_vars, select_vars,
                   notify_vars>>

StartHandlerBody ==
    /\ LockedBody("start_handler",
                  start_handler(Mixer(active_handlers, phases), mixer_op.id,
                                alert_handlers[mixer_op.id].id))
    /\ UNCHANGED <<stream, open_streams, streams_made, burst_vars>>

StopHandlerBody ==
    /\ LockedBody("stop_handler",
                  stop_handler(Mixer(active_handlers, phases),
                               alert_handlers[mixer_op.id].id))
    /\ UNCHANGED <<stream, open_streams, streams_made, burst_vars>>

UpdateHandlerBody ==
    /\ LockedBody("update_handler",
                  update_handler(Mixer(active_handlers, phases), mixer_op.id,
                                 alert_handlers[mixer_op.id].id))
    /\ UNCHANGED <<stream, open_streams, streams_made, burst_vars>>

\* cleanup: self._active_handlers.clear()
CleanupBody ==
    /\ LockedBody("cleanup", Mixer(EmptyMap, phases))
    /\ UNCHANGED <<stream, open_streams, streams_made, burst_vars>>

\* _open_stream: a new stream is created and started, or the backend raises
\* and self._stream is None
OpenStream ==
    \/ /\ streams_made < MaxStreams
       /\ streams_made' = streams_made + 1
       /\ stream' = streams_made + 1
       /\ open_streams' = open_streams \cup {streams_made + 1}
    \/ /\ stream' = 0
       /\ UNCHANGED <<open_streams, streams_made>>

\* a variant that also forgets the active handlers
ReinitializeBody_forgets ==
    /\ LockedBody("reinitialize", Mixer(EmptyMap, EmptyMap))
    /\ OpenStream
    /\ UNCHANGED burst_vars

\* reinitialize: self._phases.clear(); self._open_stream()
ReinitializeBody ==
    /\ LockedBody("reinitialize", Mixer(active_handlers, EmptyMap))
    /\ OpenStream
    /\ UNCHANGED burst_vars

\* a variant that reopens with an empty active set
CheckDeviceChangeBody_forgets ==
    /\ LockedBody("check_device_change", Mixer(EmptyMap, phases))
    /\ OpenStream
    /\ UNCHANGED burst_vars

\* check_device_change: self._open_stream()
CheckDeviceChangeBody ==
    /\ LockedBody("check_device_change", Mixer(active_handlers, phases))
    /\ OpenStream
    /\ UNCHANGED burst_vars

\* leaving the with-block; cleanup goes on to close the stream
ReleaseLock ==
    /\ mixer_pc = "release"
    /\ mixer_lock' = "free"
    /\ mixer_pc' = IF mixer_op.op = "cleanup" THEN "close" ELSE "idle"
    /\ mixer_op' = IF mixer_op.op = "cleanup" THEN mixer_op ELSE Call("idle", 0)
    /\ UNCHANGED <<phases, active_handlers, stream, open_streams, streams_made,
                   device_change_pending, audio_vars, widget_vars, obs_vars,
                   sampler_vars, aux_vars>>

\* a variant in which an exception of the teardown reaches the caller
on_teardown_error_propagated(next) == "raised"

\* "except Exception: pass" around stop() / close() and around
\* sd._terminate() / sd._initialize(): the method goes on with its next step
on_teardown_error(next) == next

\* _close_stream: self._stream = None; stop() returns once the running
\* callback has finished; stop() or close() may raise, which is swallowed
\* (a stream whose stop() raised keeps running)
CloseStreamStep ==
    /\ mixer_pc = "close"
    /\ stream' = 0
    /\ LET next == IF mixer_op.op = "cleanup" THEN "idle" ELSE "terminate"
       IN  IF stream = 0
           THEN UNCHANGED open_streams /\ mixer_pc' = next
           ELSE \/ /\ audio_pc = "idle"
                   /\ open_streams' = open_streams \ {stream}
                   /\ mixer_pc' = next
                \/ /\ UNCHANGED open_streams
                   /\ mixer_pc' = on_teardown_error(next)
    /\ mixer_op' = IF mixer_op.op = "cleanup" THEN Call("idle", 0) ELSE mixer_op
    /\ UNCHANGED <<mixer_lock, phases, active_handlers, streams_made,
                   device_change_pending, audio_vars, widget_vars, obs_vars,
                   sampler_vars, burst_vars, fn_vars, tick_vars, ui_vars,
                   select_vars>>

CloseStream == CloseStreamStep /\ UNCHANGED notify_vars

\* sd._terminate(); sd._initialize(): the backend closes every stream still
\* open, or raises and closes nothing
Terminate ==
    /\ mixer_pc = "terminate"
    /\ \/ /\ audio_pc = "idle"
          /\ open_streams' = {}
          /\ mixer_pc' = "acquire"
       \/ /\ UNCHANGED open_streams
          /\ mixer_pc' = on_teardown_error("acquire")
    /\ UNCHANGED <<mixer_lock, phases, active_handlers, stream, streams_made,
                   device_change_pending, audio_vars, widget_vars, obs_vars,
                   mixer_op,
                   sampler_vars, aux_vars>>

\* check_device_change: "if not self._device_change_pending: return"
CheckDeviceChangeTest ==
    /\ mixer_pc = "idle"
    /\ ops < MaxMixerOps
    /\ ops' = ops + 1
    /\ mixer_op' = IF device_change_pending
                  THEN Call("check_device_change", 0) ELSE Call("idle", 0)
    /\ mixer_pc' = IF device_change_pending THEN "clear" ELSE "idle"
    /\ UNCHANGED <<mixer_vars, audio_vars, widget_vars, last_op, calls,
                   was_triggered, pre_mixer,
                   sampler_vars, aux_vars>>

\* check_device_change: "self._device_change_pending = False"
CheckDeviceChangeClear ==
    /\ mixer_pc = "clear"
    /\ device_change_pending' = FALSE
    /\ mixer_pc' = "close"
    /\ UNCHANGED <<mixer_lock, phases, active_handlers, stream, open_streams,
                   streams_made, audio_vars, widget_vars, obs_vars, mixer_op,
                   sampler_vars, aux_vars>>

\* _on_device_changed_callback, on the notification thread
OnDeviceChangedCallback ==
    /\ ~device_change_pending
    /\ device_change_pending' = TRUE
    /\ UNCHANGED <<mixer_lock, phases, active_handlers, stream, open_streams,
                   streams_made, audio_vars, widget_vars, obs_vars, ctl_vars,
                   sampler_vars, aux_vars>>

MixerCallNext ==
    \/ \E ref \in DOMAIN MixerHandlers : CallStartHandler(ref)
    \/ \E ref \in DOMAIN MixerHandlers : CallStopHandler(ref)
    \/ \E ref \in DOMAIN MixerHandlers : CallUpdateHandler(ref)
    \/ CallReinitialize
    \/ CallCleanup
    \/ AcquireLock
    \/ StartHandlerBody
    \/ StopHandlerBody
    \/ UpdateHandlerBody
    \/ CleanupBody
    \/ ReinitializeBody
    \/ CheckDeviceChangeBody
    \/ ReleaseLock
    \/ CloseStream
    \/ Terminate
    \/ CheckDeviceChangeTest
    \/ CheckDeviceChangeClear
    \/ OnDeviceChangedCallback
    \/ \E frames \in 1..MaxFrames : AudioCallbackBegin(frames)
    \/ AudioCallbackMix

MixerSpec == MixerCallInit /\ [][MixerCallNext]_vars

\* -------------------------------------- device-change notifications in bursts
\* The notification source and the poll of _update_loop, with the reopens
\* counted per burst. A notification that arrives while check_device_change
\* is still handling the previous one (it takes over 0.1 s) belongs to the
\* same burst; any other starts a burst.
BurstNotification ==
    /\ ~device_change_pending
    /\ device_change_pending' = TRUE
    /\ reopens' = IF mixer_op.op = "check_device_change" THEN reopens ELSE 0
    /\ UNCHANGED <<mixer_lock, phases, active_handlers, stream, open_streams,
                   streams_made, audio_vars, widget_vars, obs_vars, ctl_vars,
                   sampler_vars, fn_vars, tick_vars, ui_vars, select_vars,
                   notify_vars>>

\* check_device_change: self._open_stream(), counted
BurstReopen ==
    /\ LockedBody("check_device_change", Mixer(active_handlers, phases))
    /\ OpenStream
    /\ reopens' = reopens + 1

BurstNext ==
    \/ \E ref \in DOMAIN MixerHandlers : CallStartHandler(ref)
    \/ StartHandlerBody
    \/ CheckDeviceChangeTest
    \/ CheckDeviceChangeClear
    \/ CloseStream
    \/ Terminate
    \/ AcquireLock
    \/ BurstReopen
    \/ ReleaseLock
    \/ BurstNotification
    \/ \E frames \in 1..MaxFrames : AudioCallbackBegin(frames)
    \/ AudioCallbackMix

BurstSpec == MixerCallInit /\ [][BurstNext]_vars

\* ------------------------------------------ the mixer lock under fair scheduling
\* The five methods of the control thread against an audio callback whose
\* synthesis may raise.
\* self._phases when the synthesis raised after _generate_tone had run for
\* the handlers with the ids in done
advance_phases_of(m, frames, done) ==
    [i \in DOMAIN m.phases \cup done |->
        IF i \in done THEN (tone_phase(m.phases, i) + frames) % sample_rate
        ELSE m.phases[i]]

\* a variant without the finally: the exception leaves the lock taken
AudioCallbackRaise_keeps_lock ==
    /\ audio_pc = "mixing"
    /\ DOMAIN active_handlers # {}
    /\ \E done \in SUBSET {alert_handlers[active_handlers[k]].id :
                               k \in DOMAIN active_handlers} :
          phases' = advance_phases_of(Mixer(active_handlers, phases),
                                      cb_frames, done)
    /\ buffers' = buffers + 1
    /\ cb_fresh' = FALSE
    /\ audio_pc' = "idle"
    /\ UNCHANGED <<mixer_lock, active_handlers, stream, open_streams,
                   streams_made, device_change_pending, cb_lock_seen, cb_frames,
                   outdata, widget_vars, obs_vars, ctl_vars, sampler_vars,
                   aux_vars>>

\* _audio_callback: an exception in the try block (in _generate_tone, the
\* normalisation or the assignment to outdata) leaves outdata unwritten and
\* the phases of the tones already generated advanced; the finally releases
\* the lock
AudioCallbackRaise ==
    /\ audio_pc = "mixing"
    /\ DOMAIN active_handlers # {}
    /\ \E done \in SUBSET {alert_handlers[active_handlers[k]].id :
                               k \in DOMAIN active_handlers} :
          phases' = advance_phases_of(Mixer(active_handlers, phases),
                                      cb_frames, done)
    /\ buffers' = buffers + 1
    /\ cb_fresh' = FALSE
    /\ mixer_lock' = "free"
    /\ audio_pc' = "idle"
    /\ UNCHANGED <<active_handlers, stream, open_streams, streams_made,
                   device_change_pending, cb_lock_seen, cb_frames, outdata,
                   widget_vars, obs_vars, ctl_vars, sampler_vars, aux_vars>>

\* one step of the AudioMixer method the control thread is in
MixerStep ==
    \/ AcquireLock
    \/ StartHandlerBody
    \/ StopHandlerBody
    \/ UpdateHandlerBody
    \/ CleanupBody
    \/ ReinitializeBody
    \/ ReleaseLock
    \/ CloseStream
    \/ Terminate

LockNext ==
    \/ \E ref \in DOMAIN MixerHandlers : ops < MaxLockOps /\ CallStartHandler(ref)
    \/ \E ref \in DOMAIN MixerHandlers : ops < MaxLockOps /\ CallStopHandler(ref)
    \/ \E ref \in DOMAIN MixerHandlers : ops < MaxLockOps /\ CallUpdateHandler(ref)
    \/ ops < MaxLockOps /\ CallReinitialize
    \/ ops < MaxLockOps /\ CallCleanup
    \/ AcquireLock
    \/ StartHandlerBody
    \/ StopHandlerBody
    \/ UpdateHandlerBody
    \/ CleanupBody
    \/ ReinitializeBody
    \/ ReleaseLock
    \/ CloseStream
    \/ Terminate
    \/ AudioCallbackBegin(1)
    \/ AudioCallbackMix
    \/ AudioCallbackRaise

\* the control thread runs the statements of the method it is in; its
\* blocking acquire gets the lock although the callback takes it again and
\* again; a callback that took the lock leaves its try block
LockFairness ==
    /\ WF_vars(MixerStep)
    /\ SF_vars(AcquireLock)
    /\ WF_vars(AudioCallbackMix \/ AudioCallbackRaise)

LockSpec == MixerCallInit /\ [][LockNext]_vars /\ LockFairness

\* ------------------------------- device-change notifications under a fair poller
\* The notification thread, the poll of _update_loop (rescheduled every
\* 33 ms for as long as the application runs) and the audio callback. A
\* notification may arrive in any state, also while the flag is already set.
\* a variant that drops a notification arriving during a reopen
Notify_dropped_while_busy ==
    /\ device_change_pending' = (device_change_pending \/ mixer_pc = "idle")
    /\ notified' = TRUE
    /\ UNCHANGED <<mixer_lock, phases, active_handlers, stream, open_streams,
                   streams_made, audio_vars, widget_vars, obs_vars, ctl_vars,
                   sampler_vars, burst_vars, fn_vars, tick_vars, ui_vars,
                   select_vars>>

\* _on_device_changed_callback: self._device_change_pending = True
Notify ==
    /\ device_change_pending' = TRUE
    /\ notified' = TRUE
    /\ UNCHANGED <<mixer_lock, phases, active_handlers, stream, open_streams,
                   streams_made, audio_vars, widget_vars, obs_vars, ctl_vars,
                   sampler_vars, burst_vars, fn_vars, tick_vars, ui_vars,
                   select_vars>>

\* _update_loop: self.audio_mixer.check_device_change(); with the flag clear
\* the call returns at once and changes nothing
UpdateLoopPoll ==
    /\ mixer_pc = "idle"
    /\ device_change_pending
    /\ mixer_op' = Call("check_device_change", 0)
    /\ mixer_pc' = "clear"
    /\ UNCHANGED <<mixer_vars, audio_vars, widget_vars, obs_vars,
                   sampler_vars, aux_vars>>

\* check_device_change: self._close_stream(), the first step of the reopen
ReopenClose ==
    /\ mixer_op.op = "check_device_change"
    /\ CloseStreamStep
    /\ notified' = FALSE

NotifyNext ==
    \/ Notify
    \/ UpdateLoopPoll
    \/ CheckDeviceChangeClear
    \/ ReopenClose
    \/ Terminate
    \/ AcquireLock
    \/ CheckDeviceChangeBody
    \/ ReleaseLock
    \/ \E frames \in 1..MaxFrames : AudioCallbackBegin(frames)
    \/ AudioCallbackMix

\* the control thread runs every statement of the poll it is in and polls
\* again; its blocking acquire gets the lock although the callback takes it
\* again and again; a callback that took the lock finishes its buffer
NotifyFairness ==
    /\ WF_vars(UpdateLoopPoll)
    /\ WF_vars(CheckDeviceChangeClear)
    /\ WF_vars(ReopenClose)
    /\ WF_vars(Terminate)
    /\ SF_vars(AcquireLock)
    /\ WF_vars(CheckDeviceChangeBody)
    /\ WF_vars(ReleaseLock)
    /\ WF_vars(AudioCallbackMix)

NotifySpec == MixerCallInit /\ [][NotifyNext]_vars /\ NotifyFairness

\* --------------------------------- HandlerWidget callbacks, statement by statement
\* A slider callback first stores the new value in the AlertHandler object
\* ("self.handler.frequency = int(value)") and then calls on_update; the audio
\* thread can be scheduled between the two.
StoreField(name, ref, heap) ==
    /\ mixer_pc = "idle"
    /\ ops < MaxOps
    /\ ref \in Range(handlers)
    /\ alert_handlers' = heap
    /\ mixer_op' = Call(name, ref)
    /\ mixer_pc' = "on_update"
    /\ ops' = ops + 1
    /\ UNCHANGED <<mixer_vars, audio_vars, handlers, value, last_op, calls,
                   was_triggered, pre_mixer, sampler_vars, aux_vars>>

FreqSliderStore(ref, f) ==
    /\ ref \in DOMAIN alert_handlers
    /\ StoreField("_on_freq_slider_change", ref,
                  [alert_handlers EXCEPT ![ref].frequency = f])

VolSliderStore(ref, vol) ==
    /\ ref \in DOMAIN alert_handlers
    /\ StoreField("_on_vol_slider_change", ref,
                  [alert_handlers EXCEPT ![ref].volume = vol])

WaveformStore(ref, short) ==
    /\ ref \in DOMAIN alert_handlers
    /\ StoreField("_on_waveform_change", ref,
                  [alert_handlers EXCEPT ![ref].waveform = waveform_from_short(short)])

\* self.on_update(): _on_handler_update calls update_handler for every
\* triggered handler of the axis, each call under the mixer lock
OnUpdate ==
    /\ mixer_pc = "on_update"
    /\ LET st == on_handler_update(Now, handlers, 1)
       IN  /\ st.calls # <<>> => mixer_lock = "free"
           /\ active_handlers' = st.mixer.active
           /\ phases' = st.mixer.phases
           /\ calls' = st.calls
    /\ last_op' = Call(mixer_op.op, alert_handlers[mixer_op.id].id)
    /\ was_triggered' = TriggeredNow
    /\ pre_mixer' = Mixer(active_handlers, phases)
    /\ cb_fresh' = FALSE
    /\ mixer_op' = Call("idle", 0)
    /\ mixer_pc' = "idle"
    /\ UNCHANGED <<mixer_lock, stream, open_streams, streams_made,
                   device_change_pending, audio_pc, cb_frames, outdata,
                   cb_lock_seen, buffers, widget_vars, ops, sampler_vars, aux_vars>>

EditNext ==
    \/ \E v \in AxisInputs : UpdateValue(v)
    \/ AddHandler
    \/ \E ref \in 1..MaxHandlers : DeleteHandler(ref)
    \/ \E ref \in 1..MaxHandlers, f \in Frequencies : FreqSliderStore(ref, f)
    \/ \E ref \in 1..MaxHandlers, vol \in Volumes : VolSliderStore(ref, vol)
    \/ \E ref \in 1..MaxHandlers, w \in ShortWaveforms : WaveformStore(ref, w)
    \/ OnUpdate
    \/ \E frames \in 1..MaxFrames : AudioCallbackBegin(frames)
    \/ AudioCallbackMix

EditSpec == Init /\ [][EditNext]_vars

\* ------------------------------------------ AlertHandler.check_trigger applied
\* thresholds and values in hundredths; values outside [0, 1] included
TriggerBounds == {0, 29, 30, 31, 100}
TriggerValues == {-50, 0, 29, 30, 31, 100, 150}

TriggerArgs ==
    {[h |-> [AlertHandler(1) EXCEPT !.min_threshold = lo, !.max_threshold = hi],
      v |-> v] : lo \in TriggerBounds, hi \in TriggerBounds, v \in TriggerValues}

TriggerInit ==
    /\ MixerInit
    /\ stream = 1
    /\ AudioInit
    /\ ObsInit
    /\ SamplerInit
    /\ alert_handlers = <<>>
    /\ handlers = <<>>
    /\ value = 0
    /\ fn_args \in TriggerArgs
    /\ fn_result = <<>>

\* h.check_trigger(v) is called and returns
CheckTrigger ==
    /\ fn_result = <<>>
    /\ fn_result' = <<check_trigger(fn_args.h, fn_args.v)>>
    /\ UNCHANGED <<app_vars, sampler_vars, burst_vars, tick_vars, ui_vars, select_vars,
                   notify_vars,
                 fn_args>>

TriggerNext == CheckTrigger

TriggerSpec == TriggerInit /\ [][TriggerNext]_vars

\* ------------------------------------------- the phase accumulator over time
\* Two handlers (ids 1 and 2) are started and the callback processes buffer
\* after buffer of the same length; fn_result is the phase map.
PhaseFrames == {1, 512, 44099, 44100}

\* the mixer after start_handler for the handlers of ids 1 and 2
PhaseStarted ==
    start_handler(start_handler(Mixer(EmptyMap, EmptyMap), 1, 1), 3, 2)

PhaseInit ==
    /\ MixerInit
    /\ stream = 1
    /\ AudioInit
    /\ ObsInit
    /\ SamplerInit
    /\ alert_handlers = MixerHandlers
    /\ handlers = <<>>
    /\ value = 0
    /\ fn_args \in {[frames |-> n, k |-> 0] : n \in PhaseFrames}
    /\ fn_result = PhaseStarted.phases

\* one more buffer: _generate_tone ran for both handlers
ProcessBuffer ==
    /\ fn_args.k < MaxPhaseBuffers
    /\ fn_result' = advance_phases(Mixer(PhaseStarted.active, fn_result),
                                   alert_handlers, fn_args.frames)
    /\ fn_args' = [fn_args EXCEPT !.k = @ + 1]
    /\ UNCHANGED <<app_vars, sampler_vars, burst_vars, tick_vars, ui_vars, select_vars,
                   notify_vars>>

PhaseNext == ProcessBuffer

PhaseSpec == PhaseInit /\ [][PhaseNext]_vars

\* ------------------------------------------------ the callback in mid-tone
\* The audio callback started from a mixer that has been playing one or two
\* tones for a while: any waveform, volume and frequency, phases around the
\* 440 Hz cycle (about 100 samples long).
NormPhases == {0, 25, 50, 75}

NormHandler(id) ==
    {[AlertHandler(id) EXCEPT !.waveform = w, !.volume = vol, !.frequency = f,
                              !.is_triggered = TRUE] :
        w \in Waveforms, vol \in Volumes, f \in Frequencies}

NormInit ==
    /\ mixer_lock = "free"
    /\ device_change_pending = FALSE
    /\ stream = 1 /\ open_streams = {1} /\ streams_made = 1
    /\ AudioInit
    /\ ObsInit
    /\ SamplerInit
    /\ FnInit
    /\ \E h1 \in NormHandler(1), h2 \in NormHandler(2) : alert_handlers = <<h1, h2>>
    /\ handlers = <<1, 2>>
    /\ value = 100
    /\ active_handlers \in {<<1>>, <<1, 2>>}
    /\ phases \in [DOMAIN active_handlers -> NormPhases]

NormNext ==
    \/ \E frames \in 1..MaxFrames : AudioCallbackBegin(frames)
    \/ AudioCallbackMix

NormSpec == NormInit /\ [][NormNext]_vars

\* ------------------------------------------------------------ JoystickReader
\* one element of a values list: the normalized value, and where it was
\* read (device, poll cycle and raw reading; 0 for the placeholder
\* select_device installs)
Reading(v, dev, cyc, raw) == [v |-> v, dev |-> dev, cyc |-> cyc, raw |-> raw]

\* a variant that halves the reading without shifting it
normalize_unshifted(raw) == raw \div 2

\* "(raw + 1.0) / 2.0"
normalize(raw) == (raw + 100) \div 2
\* "[0.0] * self._num_axes"
Placeholder(n) == [i \in 1..n |-> Reading(0, 0, 0, 0)]

PollThread == [pc |-> "check", values |-> <<>>, i |-> 0, n |-> 0, cyc |-> 0]
is_alive(t) == threads[t].pc \notin {"done", "dead"}
\* thread t waits for the reader lock in "with self._lock"
Blocked(t) == threads[t].pc = "publish" /\ js_lock # "free"

\* a JoystickReader method is entered
JsCall(name, arg) ==
    /\ js_pc = "idle"
    /\ js_ops < MaxSamplerOps
    /\ js_op' = [op |-> name, arg |-> arg]
    /\ js_pc' = "lock"
    /\ js_ops' = js_ops + 1
    /\ snap_fresh' = FALSE
    /\ UNCHANGED <<reader_vars, poll_vars, js_last, js_ret, snapshot, app_vars,
                   burst_vars, fn_vars, tick_vars, ui_vars, notify_vars>>

\* the caller enters a JoystickReader method
JsEnter(name, arg) == JsCall(name, arg) /\ UNCHANGED select_vars

CallSelectDevice(idx) == Len(threads) < MaxThreads /\ JsEnter("select_device", idx)
CallClearDevice == JsEnter("clear_device", 0)
CallGetDevices == JsEnter("get_devices", 0)
CallReaderCleanup == JsEnter("cleanup", 0)

\* where a method goes on after _stop_thread
AfterStop(name) ==
    CASE name = "select_device" -> "open"
      [] name = "clear_device" -> "clear"
      [] name = "get_devices" -> "quit"
      [] name = "cleanup" -> "unlock"

\* "with self._lock:"; get_devices skips _stop_thread when not running
JsLock ==
    /\ js_pc = "lock"
    /\ js_lock = "free"
    /\ js_lock' = "control"
    /\ js_pc' = IF js_op.op = "get_devices" /\ ~running THEN "quit" ELSE "stop"
    /\ UNCHANGED <<running, thread, joystick, axis_values, num_axes,
                   handle_valid, poll_vars, js_op, js_last, js_ret, js_ops,
                   snapshot, snap_fresh, app_vars, aux_vars>>

\* _stop_thread: self._running = False; join only a live thread
StopThread ==
    /\ js_pc = "stop"
    /\ running' = FALSE
    /\ IF thread # 0 /\ is_alive(thread)
       THEN js_pc' = "join" /\ UNCHANGED thread
       ELSE js_pc' = AfterStop(js_op.op) /\ thread' = 0
    /\ UNCHANGED <<js_lock, joystick, axis_values, num_axes, handle_valid,
                   poll_vars, js_op, js_last, js_ret, js_ops, snapshot,
                   snap_fresh, app_vars, aux_vars>>

\* a variant of join without the timeout
join_returns_untimed(t) == ~is_alive(t)

\* join(timeout=0.5) returns when the thread has ended, or after the timeout,
\* which a thread that waits for the lock the caller holds runs into
join_returns(t) == ~is_alive(t) \/ Blocked(t)

\* _stop_thread: the join returned; self._thread = None
Join ==
    /\ js_pc = "join"
    /\ join_returns(thread)
    /\ thread' = 0
    /\ js_pc' = AfterStop(js_op.op)
    /\ UNCHANGED <<js_lock, running, joystick, axis_values, num_axes,
                   handle_valid, poll_vars, js_op, js_last, js_ret, js_ops,
                   snapshot, snap_fresh, app_vars, aux_vars>>

\* select_device: Joystick(device_idx) and init() succeed, or raise
\* pygame.error and the except branch runs
SelectOpen ==
    /\ js_pc = "open"
    /\ \/ /\ joystick' = js_op.arg
          /\ handle_valid' = TRUE
          /\ js_pc' = "axes"
       \/ /\ js_pc' = "clear"
          /\ UNCHANGED <<joystick, handle_valid>>
    /\ UNCHANGED <<js_lock, running, thread, axis_values, num_axes, poll_vars,
                   js_op, js_last, js_ret, js_ops, snapshot, snap_fresh, app_vars, aux_vars>>

\* select_device: self._num_axes and the placeholder self._axis_values
SelectAxes ==
    /\ js_pc = "axes"
    /\ num_axes' = NumAxes(joystick)
    /\ axis_values' = Placeholder(NumAxes(joystick))
    /\ js_pc' = "start"
    /\ UNCHANGED <<js_lock, running, thread, joystick, handle_valid, poll_vars,
                   js_op, js_last, js_ret, js_ops, snapshot, snap_fresh, app_vars, aux_vars>>

\* select_device: self._running = True, the new thread is started, the
\* method returns self._num_axes
SelectStart ==
    /\ js_pc = "start"
    /\ running' = TRUE
    /\ threads' = Append(threads, PollThread)
    /\ thread' = Len(threads) + 1
    /\ js_lock' = "free"
    /\ js_pc' = "idle"
    /\ js_last' = js_op.op
    /\ js_ret' = num_axes
    /\ UNCHANGED <<joystick, axis_values, num_axes, handle_valid, cycles,
                   cycle_len, js_op, js_ops, snapshot, snap_fresh, app_vars, aux_vars>>

\* clear_device, and the except branch of select_device: self._joystick = None
ClearJoystick ==
    /\ js_pc = "clear"
    /\ joystick' = 0
    /\ handle_valid' = FALSE
    /\ js_pc' = "clear_values"
    /\ UNCHANGED <<js_lock, running, thread, axis_values, num_axes, poll_vars,
                   js_op, js_last, js_ret, js_ops, snapshot, snap_fresh, app_vars, aux_vars>>

\* ... self._num_axes = 0; self._axis_values = []; the method returns
ClearValues ==
    /\ js_pc = "clear_values"
    /\ num_axes' = 0
    /\ axis_values' = <<>>
    /\ js_lock' = "free"
    /\ js_pc' = "idle"
    /\ js_last' = js_op.op
    /\ js_ret' = 0
    /\ UNCHANGED <<running, thread, joystick, handle_valid, poll_vars, js_op,
                   js_ops, snapshot, snap_fresh, app_vars, aux_vars>>

\* get_devices: pygame.joystick.quit(); init(); the list is returned.
\* cleanup: the lock is released and pygame.quit() runs.
\* Either way the handle in self._joystick is no longer usable.
QuitAndReturn ==
    /\ js_pc \in {"quit", "unlock"}
    /\ handle_valid' = FALSE
    /\ js_lock' = "free"
    /\ js_pc' = "idle"
    /\ js_last' = js_op.op
    /\ js_ret' = 0
    /\ UNCHANGED <<running, thread, joystick, axis_values, num_axes, poll_vars,
                   js_op, js_ops, snapshot, snap_fresh, app_vars, aux_vars>>

\* get_axis_values: a copy of self._axis_values taken under the lock
GetAxisValues ==
    /\ js_pc = "idle"
    /\ js_lock = "free"
    /\ snapshot' = axis_values
    /\ snap_fresh' = TRUE
    /\ UNCHANGED <<reader_vars, poll_vars, js_op, js_pc, js_last, js_ret,
                   js_ops, app_vars, aux_vars>>

\* a variant that stores every axis into the shared array as it is read
published_in_place(shared, values) == values

\* what a read of one axis leaves in the shared self._axis_values: the loop
\* appends to its local list and shares nothing until the list is complete
published_after_read(shared, values) == shared

\* _read_loop: "while self._running"
PollCheck(t) ==
    /\ threads[t].pc = "check"
    /\ threads' = [threads EXCEPT ![t].pc = IF running THEN "test" ELSE "done"]
    /\ UNCHANGED <<reader_vars, cycles, cycle_len, js_ctl_vars, app_vars, aux_vars>>

\* _read_loop: "if self._joystick:", values = [], range(self._num_axes)
PollTest(t) ==
    /\ threads[t].pc = "test"
    /\ IF joystick = 0
       THEN /\ threads' = [threads EXCEPT ![t].pc = "check"]
            /\ UNCHANGED <<cycles, cycle_len>>
       ELSE /\ cycles < MaxCycles
            /\ cycles' = cycles + 1
            /\ cycle_len' = Append(cycle_len, num_axes)
            /\ threads' = [threads EXCEPT ![t] =
                  [pc |-> IF num_axes = 0 THEN "publish" ELSE "read",
                   values |-> <<>>, i |-> 0, n |-> num_axes, cyc |-> cycles + 1]]
    /\ UNCHANGED <<reader_vars, js_ctl_vars, app_vars, aux_vars>>

\* a variant in which the exception ends the thread
after_pygame_error_fatal == "dead"

\* "except pygame.error: pass", the sleep, and back to the head of the loop
after_pygame_error == "check"

\* _read_loop: raw = self._joystick.get_axis(i); values.append(...).
\* With self._joystick None the thread dies of an AttributeError; a
\* pygame.error ends the cycle and the loop goes on. The device reports a
\* position out of raws.
PollReadFrom(t, raws) ==
    /\ threads[t].pc = "read"
    /\ LET th == threads[t]
       IN  IF joystick = 0
           THEN /\ threads' = [threads EXCEPT ![t].pc = "dead"]
                /\ UNCHANGED axis_values
           ELSE \/ /\ threads' = [threads EXCEPT ![t].pc = after_pygame_error]
                   /\ UNCHANGED axis_values
                \/ /\ handle_valid
                   /\ th.i < NumAxes(joystick)
                   /\ \E raw \in raws :
                        LET vs == Append(th.values,
                                         Reading(normalize(raw), joystick, th.cyc, raw))
                        IN  /\ threads' = [threads EXCEPT ![t] =
                                  [th EXCEPT !.values = vs, !.i = th.i + 1,
                                     !.pc = IF th.i + 1 = th.n
                                            THEN "publish" ELSE "read"]]
                            /\ axis_values' = published_after_read(axis_values, vs)
    /\ UNCHANGED <<js_lock, running, thread, joystick, num_axes, handle_valid,
                   cycles, cycle_len, js_ctl_vars, app_vars, aux_vars>>

PollRead(t) == PollReadFrom(t, Raw)

\* _read_loop: "with self._lock: self._axis_values = values", then the sleep
PollPublish(t) ==
    /\ threads[t].pc = "publish"
    /\ js_lock = "free"
    /\ axis_values' = threads[t].values
    /\ threads' = [threads EXCEPT ![t].pc = "check"]
    /\ UNCHANGED <<js_lock, running, thread, joystick, num_axes, handle_valid,
                   cycles, cycle_len, js_ctl_vars, app_vars, aux_vars>>

SamplerNext ==
    \/ \E idx \in Devices : CallSelectDevice(idx)
    \/ CallClearDevice
    \/ CallGetDevices
    \/ CallReaderCleanup
    \/ JsLock
    \/ StopThread
    \/ Join
    \/ SelectOpen
    \/ SelectAxes
    \/ SelectStart
    \/ ClearJoystick
    \/ ClearValues
    \/ QuitAndReturn
    \/ GetAxisValues
    \/ \E t \in DOMAIN threads : PollCheck(t)
    \/ \E t \in DOMAIN threads : PollTest(t)
    \/ \E t \in DOMAIN threads : PollRead(t)
    \/ \E t \in DOMAIN threads : PollPublish(t)

SamplerSpecInit == Init /\ stream = 1

SamplerSpec == SamplerSpecInit /\ [][SamplerNext]_vars

\* --------------------------------------- JoystickReader under fair scheduling
\* _read_loop: "if self._joystick:", values = [], range(self._num_axes), for
\* a loop that runs for as long as _running is set: the cycles are not
\* counted, every one carries the number MaxCycles
PollTestOn(t) ==
    /\ threads[t].pc = "test"
    /\ threads' = IF joystick = 0
                  THEN [threads EXCEPT ![t].pc = "check"]
                  ELSE [threads EXCEPT ![t] =
                          [pc |-> IF num_axes = 0 THEN "publish" ELSE "read",
                           values |-> <<>>, i |-> 0, n |-> num_axes,
                           cyc |-> MaxCycles]]
    /\ UNCHANGED <<cycles, cycle_len, reader_vars, js_ctl_vars, app_vars,
                   aux_vars>>

\* _read_loop: get_axis(i) of a device at rest
PollReadRest(t) == PollReadFrom(t, {0})

\* one step of polling thread t
PollStep(t) ==
    /\ t \in DOMAIN threads
    /\ PollCheck(t) \/ PollTestOn(t) \/ PollReadRest(t) \/ PollPublish(t)

\* one step of the JoystickReader method the control thread is in
ReaderStep ==
    \/ JsLock
    \/ StopThread
    \/ Join
    \/ SelectOpen
    \/ SelectAxes
    \/ SelectStart
    \/ ClearJoystick
    \/ ClearValues
    \/ QuitAndReturn

StopNext ==
    \/ \E idx \in Devices : CallSelectDevice(idx)
    \/ CallClearDevice
    \/ CallGetDevices
    \/ CallReaderCleanup
    \/ JsLock
    \/ StopThread
    \/ Join
    \/ SelectOpen
    \/ SelectAxes
    \/ SelectStart
    \/ ClearJoystick
    \/ ClearValues
    \/ QuitAndReturn
    \/ \E t \in DOMAIN threads : PollCheck(t)
    \/ \E t \in DOMAIN threads : PollTestOn(t)
    \/ \E t \in DOMAIN threads : PollReadRest(t)
    \/ \E t \in DOMAIN threads : PollPublish(t)

\* the control thread and every polling thread get processor time: a thread
\* that can take its next step takes it
StopFairness ==
    /\ WF_vars(ReaderStep)
    /\ \A t \in 1..MaxThreads : WF_vars(PollStep(t))

StopSpec == SamplerSpecInit /\ [][StopNext]_vars /\ StopFairness

\* ------------------------------------- device selection of the application
\* _refresh_devices and _on_device_select drive the JoystickReader; both
\* devices stay plugged in. The Tk thread runs one of them to its end before
\* it runs _update_loop again.

\* _refresh_devices: self.joystick_reader.get_devices()
RefreshDevices ==
    /\ app_pc = "idle"
    /\ JsCall("get_devices", 0)
    /\ app_pc' = "get_devices"
    /\ UNCHANGED <<current_device_selection, app_arg>>

\* _on_device_select: "if self._current_device_selection == selection: return",
\* else joystick_reader.select_device(device_idx)
on_device_select(selection) ==
    IF current_device_selection = selection
    THEN /\ app_pc' = "idle"
         /\ UNCHANGED <<current_device_selection, app_arg, sampler_vars,
                        app_vars, burst_vars, fn_vars, tick_vars, ui_vars,
                        notify_vars>>
    ELSE /\ Len(threads) < MaxThreads
         /\ JsCall("select_device", selection)
         /\ app_pc' = "select_device"
         /\ app_arg' = selection
         /\ UNCHANGED current_device_selection

\* _refresh_devices once get_devices returned the list: devices[0] or the
\* device named in the settings file is selected
RefreshSelect ==
    /\ app_pc = "get_devices"
    /\ js_pc = "idle"
    /\ \E selected_device \in Devices : on_device_select(selected_device)

\* the user picks a device in the dropdown
OnDeviceSelect(selection) ==
    /\ app_pc = "idle"
    /\ js_pc = "idle"
    /\ on_device_select(selection)

\* _on_device_select once select_device returned num_axes: the selection is
\* recorded, or _clear_axes calls clear_device
SelectReturned ==
    /\ app_pc = "select_device"
    /\ js_pc = "idle"
    /\ IF js_ret > 0
       THEN /\ current_device_selection' = app_arg
            /\ app_pc' = "idle"
            /\ UNCHANGED <<app_arg, sampler_vars, app_vars, burst_vars, fn_vars,
                           tick_vars, ui_vars, notify_vars>>
       ELSE /\ JsCall("clear_device", 0)
            /\ app_pc' = "clear_device"
            /\ UNCHANGED <<current_device_selection, app_arg>>

\* _clear_axes once clear_device returned: self._current_device_selection = None
ClearReturned ==
    /\ app_pc = "clear_device"
    /\ js_pc = "idle"
    /\ current_device_selection' = 0
    /\ app_pc' = "idle"
    /\ UNCHANGED <<app_arg, sampler_vars, app_vars, burst_vars, fn_vars,
                   tick_vars, ui_vars, notify_vars>>

\* _update_loop: self.joystick_reader.get_axis_values()
UpdateLoopRead == app_pc = "idle" /\ GetAxisValues

SelectNext ==
    \/ RefreshDevices
    \/ RefreshSelect
    \/ \E selection \in Devices : OnDeviceSelect(selection)
    \/ SelectReturned
    \/ ClearReturned
    \/ UpdateLoopRead
    \/ JsLock
    \/ StopThread
    \/ Join
    \/ SelectOpen
    \/ SelectAxes
    \/ SelectStart
    \/ ClearJoystick
    \/ ClearValues
    \/ QuitAndReturn
    \/ \E t \in DOMAIN threads : PollCheck(t)
    \/ \E t \in DOMAIN threads : PollTest(t)
    \/ \E t \in DOMAIN threads : PollRead(t)
    \/ \E t \in DOMAIN threads : PollPublish(t)

SelectSpec == SamplerSpecInit /\ [][SelectNext]_vars

\* ------------------------------------------------------------------ claims
Issued(op, id) == {i \in DOMAIN calls : calls[i] = Call(op, id)}
Silent(buf) == \A i \in DOMAIN buf : buf[i] = 0

\* C1: a tick of update_value issues start_handler(h) only when h's triggered
\* boolean went false -> true on that tick and stop_handler(h.id) only when
\* it went true -> false; a handler whose boolean is the same as on the
\* previous tick gets no start and no stop, and no call is issued twice.
C1_EdgeTriggered ==
    last_op.op = "update_value" =>
        \A r \in DOMAIN was_triggered :
            LET id == alert_handlers[r].id
                was == was_triggered[r]
                is_now == alert_handlers[r].is_triggered
            IN  /\ Issued("start", id) # {} => (~was /\ is_now)
                /\ Issued("stop", id) # {} => (was /\ ~is_now)
                /\ was = is_now => Issued("start", id) \cup Issued("stop", id) = {}
                /\ Cardinality(Issued("start", id)) <= 1
                /\ Cardinality(Issued("stop", id)) <= 1

\* C1 witness: a tick found an active handler still in range and issued nothing
C1_Witness ==
    /\ last_op.op = "update_value"
    /\ calls = <<>>
    /\ \E r \in Range(handlers) :
          /\ was_triggered[r]
          /\ alert_handlers[r].is_triggered
          /\ alert_handlers[r].id \in DOMAIN active_handlers

\* C6: deleting a handler calls stop_handler(id) before the handler leaves the
\* axis's list; afterwards the active set has no entry for id and a buffer
\* synthesized with nothing else active is all zeros.
C6_DeleteStopsTone ==
    last_op.op = "_delete_handler" =>
        /\ \E i, j \in DOMAIN calls :
              /\ i < j
              /\ calls[i] = Call("stop", last_op.id)
              /\ calls[j] = Call("remove", last_op.id)
        /\ last_op.id \notin DOMAIN active_handlers
        /\ \A i \in DOMAIN handlers : alert_handlers[handlers[i]].id # last_op.id
        /\ (cb_fresh /\ DOMAIN active_handlers = {}) => Silent(outdata)

\* C6 witness: the deleted handler was the only active tone, had played, and
\* a buffer was synthesized after the delete
C6_Witness ==
    /\ last_op.op = "_delete_handler"
    /\ DOMAIN pre_mixer.active = {last_op.id}
    /\ pre_mixer.phases[last_op.id] > 0
    /\ cb_fresh
    /\ audio_pc = "idle"
    /\ outdata # <<>>

\* C7: after a tick every handler of the axis has is_triggered exactly when
\* min_threshold <= value <= max_threshold for the clamped value of the tick.
C7_TriggeredIffInRange ==
    last_op.op = "update_value" =>
        /\ value \in 0..100
        /\ \A i \in DOMAIN handlers :
              LET h == alert_handlers[handlers[i]]
              IN  h.is_triggered <=>
                      (h.min_threshold <= value /\ value <= h.max_threshold)

\* C7 witness: a tick at a boundary value left one handler triggered (value on
\* its lower bound) and another one not
C7_Witness ==
    /\ last_op.op = "update_value"
    /\ \E i, j \in DOMAIN handlers :
          /\ alert_handlers[handlers[i]].is_triggered
          /\ alert_handlers[handlers[i]].min_threshold = value
          /\ ~alert_handlers[handlers[j]].is_triggered

\* C2: the audio callback never waits for the mixer lock: while another
\* thread holds the lock the callback can still run, and a callback that found
\* the lock held wrote an all-zero buffer and returned without the lock; the
\* callback is inside the locked section only as the holder of the lock.
C2_CallbackNeverWaits ==
    /\ audio_pc = "mixing" => mixer_lock = "audio"
    /\ (audio_pc = "idle" /\ open_streams # {} /\ mixer_lock = "control")
          => ENABLED AudioCallbackBegin(1)
    /\ cb_lock_seen # "free" =>
          /\ audio_pc = "idle"
          /\ mixer_lock # "audio"
          /\ outdata # <<>>
          /\ Silent(outdata)

\* C2 witness: with a tone active, a callback ran while the control thread
\* held the lock and the buffer it wrote is silence
C2_Witness ==
    /\ cb_lock_seen = "control"
    /\ mixer_lock = "control"
    /\ cb_fresh
    /\ DOMAIN active_handlers # {}
    /\ outdata # <<>>
    /\ Silent(outdata)

\* the handler id of the argument of the AudioMixer method being run / last run
ArgId(c) == alert_handlers[c.id].id
BodyStep(name) ==
    mixer_pc = "locked" /\ mixer_op.op = name /\ mixer_pc' = "release"

\* C8: start_handler leaves an entry for the id in the active set, and on an
\* id that is already active it changes neither the stored handler nor any
\* phase accumulator.
C8_StartIdempotent ==
    [][BodyStep("start_handler") =>
          /\ ArgId(mixer_op) \in DOMAIN active_handlers'
          /\ ArgId(mixer_op) \in DOMAIN active_handlers =>
                (active_handlers' = active_handlers /\ phases' = phases)]_vars

\* C8 witness: start_handler ran for an id that was active with another
\* stored handler and an advanced phase, and both are as they were
C8_Witness ==
    /\ last_op.op = "start_handler"
    /\ ArgId(last_op) \in DOMAIN pre_mixer.active
    /\ pre_mixer.active[ArgId(last_op)] # last_op.id
    /\ pre_mixer.phases[ArgId(last_op)] > 0
    /\ active_handlers = pre_mixer.active
    /\ phases = pre_mixer.phases

\* C9: update_handler on an active id stores the handler passed under that id
\* and changes nothing else: every phase accumulator, that of the id
\* included, and every other active entry stay as they were.
C9_UpdateKeepsPhase ==
    [][(BodyStep("update_handler") /\ ArgId(mixer_op) \in DOMAIN active_handlers) =>
          /\ DOMAIN active_handlers' = DOMAIN active_handlers
          /\ active_handlers'[ArgId(mixer_op)] = mixer_op.id
          /\ \A k \in DOMAIN active_handlers \ {ArgId(mixer_op)} :
                active_handlers'[k] = active_handlers[k]
          /\ phases' = phases]_vars

\* C9 witness: update_handler replaced the stored handler of an id whose phase
\* had advanced, and the phase is as it was
C9_Witness ==
    /\ last_op.op = "update_handler"
    /\ ArgId(last_op) \in DOMAIN pre_mixer.active
    /\ pre_mixer.active[ArgId(last_op)] # last_op.id
    /\ pre_mixer.phases[ArgId(last_op)] > 0
    /\ active_handlers[ArgId(last_op)] = last_op.id
    /\ phases[ArgId(last_op)] = pre_mixer.phases[ArgId(last_op)]

\* C10: update_handler on an id that is not active changes neither the active
\* set nor the phase map.
C10_UpdateInactiveNoOp ==
    [][(BodyStep("update_handler") /\ ArgId(mixer_op) \notin DOMAIN active_handlers) =>
          (active_handlers' = active_handlers /\ phases' = phases)]_vars

\* C10 witness: update_handler ran for an id that was not active while
\* another tone was, and the id is still not active
C10_Witness ==
    /\ last_op.op = "update_handler"
    /\ pre_mixer.active # EmptyMap
    /\ ArgId(last_op) \notin DOMAIN pre_mixer.active
    /\ ArgId(last_op) \notin DOMAIN active_handlers
    /\ phases = pre_mixer.phases

Alive == {t \in DOMAIN threads : is_alive(t)}

\* C3: at most one polling loop is alive at any time: the loop of the
\* previous selection has ended before select_device starts the next one.
C3_OneLoopAlive == Cardinality(Alive) <= 1

\* C4: once clear_device or cleanup has returned no polling thread is alive,
\* and after clear_device the published snapshot is empty and stays empty
\* (get_axis_values returns []) until the next select_device.
C4_StoppedWhenClearReturns ==
    (js_pc = "idle" /\ js_last \in {"clear_device", "cleanup"}) =>
        /\ Alive = {}
        /\ js_last = "clear_device" =>
              (axis_values = <<>> /\ (snap_fresh => snapshot = <<>>))

C11_StopDiscardsPhase ==
    last_op.op = "stop_handler" =>
        /\ ArgId(last_op) \notin DOMAIN active_handlers
        /\ ArgId(last_op) \notin DOMAIN phases

\* the parameters the audio callback synthesizes the tone of an active id with
SynthParams(heap, active, id) ==
    LET h == heap[active[id]] IN <<h.frequency, h.volume, h.waveform>>

\* C12: the mixer holds a copy of an active handler's parameters: the
\* frequency, volume and waveform the audio callback synthesizes an active id
\* with change only in a step in which update_handler runs under the mixer
\* lock, never in the step that edits the handler object.
C12_MixerHoldsCopy ==
    [][\A id \in DOMAIN active_handlers \cap DOMAIN active_handlers' :
          SynthParams(alert_handlers', active_handlers', id)
              # SynthParams(alert_handlers, active_handlers, id)
          => mixer_pc = "on_update"]_vars

\* C13: a burst of device-change notifications causes exactly one reopen of
\* the output stream: check_device_change never reopens a second time for
\* notifications of one burst.
C13_BurstOneReopen == reopens <= 1

\* C14: the active set and the phase map are read and written only inside a
\* section that holds the mixer lock: the control thread is in the body of a
\* with-block only as the holder of the lock, the audio callback mixes only as
\* the holder of the lock, the two are never inside at the same time, and a
\* step that changes either map is taken by a thread inside its section.
C14_LockProtectsMixerState ==
    /\ [](/\ mixer_pc \in {"locked", "release"} => mixer_lock = "control"
          /\ audio_pc = "mixing" => mixer_lock = "audio"
          /\ ~(audio_pc = "mixing" /\ mixer_pc \in {"locked", "release"}))
    /\ [][(active_handlers' # active_handlers \/ phases' # phases) =>
             \/ mixer_pc = "locked" /\ mixer_lock = "control" /\ mixer_pc' = "release"
             \/ audio_pc = "mixing" /\ mixer_lock = "audio" /\ audio_pc' = "idle"]_vars

\* C14 witness: stop_handler waits for the lock while the audio callback, the
\* holder, is mixing an active tone
C14_Witness ==
    /\ mixer_pc = "acquire"
    /\ mixer_op.op = "stop_handler"
    /\ audio_pc = "mixing"
    /\ mixer_lock = "audio"
    /\ ArgId(mixer_op) \in DOMAIN active_handlers

\* C15: a callback that runs with an empty active set writes a buffer whose
\* every sample is 0, and every callback, whichever path it takes (tones
\* active, none active, lock contended), has written all the frames it was
\* asked for when it returns.
C15_SilenceAndWholeBuffer ==
    /\ []((audio_pc = "idle" /\ cb_frames > 0) => Len(outdata) = cb_frames)
    /\ [][(audio_pc = "mixing" /\ audio_pc' = "idle"
              /\ DOMAIN active_handlers = {}) =>
             (Len(outdata') = cb_frames /\ Silent(outdata'))]_vars

\* C15 witness: after a tone had played and was stopped, a callback took the
\* lock, found no active handler and wrote a full buffer of zeros
C15_Witness ==
    /\ audio_pc = "idle"
    /\ cb_fresh
    /\ cb_lock_seen = "free"
    /\ DOMAIN active_handlers = {}
    /\ \E id \in DOMAIN phases : phases[id] > 0
    /\ Len(outdata) = MaxFrames
    /\ Silent(outdata)

\* C16: check_trigger(v) returns true exactly when min_threshold <= v and
\* v <= max_threshold, both bounds inclusive; for a handler with min = max it
\* returns true exactly when v = min.
C16_CheckTriggerInclusive ==
    fn_result # <<>> =>
        LET lo == fn_args.h.min_threshold
            hi == fn_args.h.max_threshold
            v == fn_args.v
        IN  /\ fn_result[1] <=> (lo <= v /\ v <= hi)
            /\ lo = hi => (fn_result[1] <=> v = lo)
            /\ (v = lo /\ lo <= hi) => fn_result[1]
            /\ (v = hi /\ lo <= hi) => fn_result[1]

\* C16 witness: a handler with min = max = 0.30 was asked about 0.30 and
\* answered true
C16_Witness ==
    /\ fn_result = <<TRUE>>
    /\ fn_args.h.min_threshold = 30
    /\ fn_args.h.max_threshold = 30
    /\ fn_args.v = 30

\* C17: a select_device that failed returned 0 and left no device selected:
\* no joystick handle, axis count 0, an empty published array and no polling
\* thread alive, whatever was selected before the call.
C17_FailedSelectLeavesNothing ==
    (js_pc = "idle" /\ js_last = "select_device" /\ js_ret = 0) =>
        /\ joystick = 0
        /\ num_axes = 0
        /\ axis_values = <<>>
        /\ ~running
        /\ Alive = {}

\* the poll cycle thread t began last ended in a pygame.error: it stopped
\* before every axis was read
CycleFailed(t) == threads[t].pc \in {"check", "test"} /\ threads[t].i < threads[t].n

\* C18: a pygame.error raised by a read of an axis leaves the published array
\* as it was and does not end the polling thread: the thread is back at the
\* head of its loop, from where it goes on polling while _running is set.
C18_PollErrorKeepsSnapshot ==
    /\ [][\A t \in DOMAIN threads :
            (threads[t].pc = "read" /\ joystick # 0
                /\ threads'[t].pc \notin {"read", "publish"}) =>
               /\ axis_values' = axis_values
               /\ threads'[t].pc = "check"
               /\ threads'[t].values = threads[t].values]_vars
    /\ [](\A t \in DOMAIN threads :
            (CycleFailed(t) /\ threads[t].pc = "check") => ENABLED PollCheck(t))

\* C18 witness: the second poll cycle of a thread failed after one of two axes
\* was read; the published array is still the one of its first cycle and the
\* thread has gone on to the next iteration
C18_Witness ==
    /\ running
    /\ \E t \in DOMAIN threads :
          /\ CycleFailed(t)
          /\ threads[t].pc = "test"
          /\ threads[t].i = 1
          /\ threads[t].cyc = 2
          /\ Len(axis_values) = 2
          /\ axis_values[1].cyc = 1
          /\ axis_values[2].cyc = 1

Reopening == mixer_op.op \in {"reinitialize", "check_device_change"}

\* C19: reinitialize and check_device_change are safe whether or not a
\* stream is open and whatever the teardown raises: no exception reaches the
\* caller; a reopen under way can always take its next step, or waits for a
\* lock the audio callback is about to release; and its last step, taken with
\* self._stream None, leaves either no stream or a stream that was created
\* and started in that step.
C19_ReopenSafe ==
    /\ [](mixer_pc # "raised")
    /\ []((Reopening /\ mixer_pc # "idle") =>
            \/ ENABLED (CheckDeviceChangeClear \/ CloseStream \/ Terminate
                          \/ AcquireLock \/ ReinitializeBody
                          \/ CheckDeviceChangeBody \/ ReleaseLock)
            \/ (mixer_lock = "audio" /\ ENABLED AudioCallbackMix))
    /\ [][(BodyStep("reinitialize") \/ BodyStep("check_device_change")) =>
            /\ stream = 0
            /\ \/ stream' = 0
               \/ /\ stream' \notin open_streams
                  /\ stream' \in open_streams'
                  /\ stream' = streams_made']_vars

\* C19 witness: check_device_change ran with a stream open whose stop()
\* raised; it returned, the old stream is still running and a new one is open
C19_Witness ==
    /\ mixer_pc = "idle"
    /\ last_op.op = "check_device_change"
    /\ open_streams = {1, 2}
    /\ stream = 2

\* the ids whose tone a step of the audio callback synthesized: those whose
\* phase accumulator it advanced
Played ==
    {id \in DOMAIN phases' : id \notin DOMAIN phases \/ phases'[id] # phases[id]}

\* C20: a failed open of the output stream is not fatal. With no stream the
\* mixer still takes every call; start_handler, stop_handler and
\* update_handler maintain the active set as they do with a stream; a reopen
\* leaves the active set as it is; and a callback of the reopened stream
\* synthesizes the tones of exactly the ids active when it runs.
C20_OpenFailureNotFatal ==
    /\ []((stream = 0 /\ mixer_pc = "idle" /\ ops < MaxMixerOps) =>
            /\ ENABLED CallStartHandler(1)
            /\ ENABLED CallStopHandler(1)
            /\ ENABLED CallUpdateHandler(1)
            /\ ENABLED CallReinitialize)
    /\ [][stream = 0 =>
            /\ BodyStep("start_handler") =>
                  ArgId(mixer_op) \in DOMAIN active_handlers'
            /\ BodyStep("stop_handler") =>
                  ArgId(mixer_op) \notin DOMAIN active_handlers'
            /\ (BodyStep("update_handler")
                  /\ ArgId(mixer_op) \in DOMAIN active_handlers) =>
                  active_handlers'[ArgId(mixer_op)] = mixer_op.id]_vars
    /\ [][(BodyStep("reinitialize") \/ BodyStep("check_device_change")) =>
            active_handlers' = active_handlers]_vars
    /\ [][(audio_pc = "mixing" /\ audio_pc' = "idle") =>
            Played = DOMAIN active_handlers]_vars

\* C20 witness: the first open failed, a handler was started with no stream,
\* reinitialize then opened the first stream and a callback of that stream
\* synthesized the handler's tone
C20_Witness ==
    /\ last_op.op = "reinitialize"
    /\ streams_made = 1
    /\ stream = 1
    /\ DOMAIN active_handlers # {}
    /\ audio_pc = "idle"
    /\ cb_fresh
    /\ cb_lock_seen = "free"
    /\ ~Silent(outdata)
    /\ DOMAIN phases = DOMAIN active_handlers

EditOps == {"_on_range_change", "_on_freq_slider_change",
            "_on_vol_slider_change", "_on_waveform_change"}

\* C21: an edit of the range, frequency, volume or waveform of a handler that
\* is triggered calls update_handler for that handler as part of the edit, and
\* the edit issues no start_handler and no stop_handler.
C21_EditPushesUpdate ==
    last_op.op \in EditOps =>
        /\ was_triggered[last_op.id] => Issued("update", last_op.id) # {}
        /\ \A i \in DOMAIN calls : calls[i].op = "update"

\* C21 witness: the frequency slider of a handler whose tone was playing was
\* moved; update_handler was called for it and the tone is still active
C21_Witness ==
    /\ last_op.op = "_on_freq_slider_change"
    /\ was_triggered[last_op.id]
    /\ last_op.id \in DOMAIN pre_mixer.active
    /\ pre_mixer.phases[last_op.id] > 0
    /\ calls = <<Call("update", last_op.id)>>
    /\ alert_handlers[last_op.id].frequency = 880
    /\ phases = pre_mixer.phases

InWindow(h, v) == h.min_threshold <= v /\ v <= h.max_threshold

\* C22: a tick whose value lies outside a handler's window never triggers the
\* handler: no start is issued for it and it is left not triggered, also when
\* the previous value lay on the other side of the window (the window was
\* jumped over between two samples).
C22_NoTriggerOutsideWindow ==
    last_op.op = "update_value" =>
        \A i \in DOMAIN handlers :
            LET h == alert_handlers[handlers[i]]
            IN  ~InWindow(h, value) =>
                    /\ Issued("start", h.id) = {}
                    /\ ~h.is_triggered
                    /\ h.id \notin DOMAIN active_handlers

\* C22 witness: the value went from below the window of a handler to above it
\* in one tick, and the tick issued nothing
C22_Witness ==
    /\ last_op.op = "update_value"
    /\ calls = <<>>
    /\ \E i \in DOMAIN handlers :
          LET h == alert_handlers[handlers[i]]
          IN  /\ prev_value < h.min_threshold
              /\ h.max_threshold < value
              /\ ~was_triggered[handlers[i]]
              /\ ~h.is_triggered

TickStep == last_op'.op = "update_value" /\ ops' = ops + 1

\* C24: is_triggered is written only by update_value: a step that changes
\* is_triggered of a handler is a tick, and a handler is created with
\* is_triggered false; edits, mixer calls and the audio callback leave it.
C24_OnlyTickWritesTriggered ==
    [][/\ (\E r \in DOMAIN alert_handlers :
              alert_handlers'[r].is_triggered # alert_handlers[r].is_triggered)
          => TickStep
       /\ \A r \in DOMAIN alert_handlers' \ DOMAIN alert_handlers :
              ~alert_handlers'[r].is_triggered]_vars

\* C24 witness: the range of a triggered handler was edited so that the value
\* is no longer in its window; the handler is still triggered and active
C24_Witness ==
    /\ last_op.op = "_on_range_change"
    /\ was_triggered[last_op.id]
    /\ alert_handlers[last_op.id].is_triggered
    /\ ~InWindow(alert_handlers[last_op.id], value)
    /\ last_op.id \in DOMAIN active_handlers

\* C25: every processed buffer of N frames advances the phase accumulator of
\* every active handler by N modulo sample_rate: after k buffers since the
\* start the phase is (k * N) mod sample_rate, and 0 <= phase < sample_rate.
C25_PhaseAdvancesModulo ==
    \A id \in DOMAIN fn_result :
        /\ fn_result[id] = (fn_args.k * fn_args.frames) % sample_rate
        /\ 0 <= fn_result[id]
        /\ fn_result[id] < sample_rate

\* C25 witness: after 87 buffers of 512 frames the accumulator has wrapped
\* around once
C25_Witness ==
    /\ fn_args.frames = 512
    /\ fn_args.k * 512 > sample_rate
    /\ DOMAIN fn_result = {1, 2}
    /\ fn_result[1] = fn_args.k * 512 - sample_rate
    /\ fn_result[2] = fn_result[1]

\* C26: no sample the callback writes exceeds 1.0 in absolute value. When
\* the peak of the summed tones exceeds 1.0 every sample of the buffer is the
\* sum divided by that peak (so the peak of the buffer is 1.0); otherwise the
\* buffer is the sum unchanged.
C26_PeakNormalized ==
    [][(audio_pc = "mixing" /\ audio_pc' = "idle" /\ DOMAIN active_handlers # {}) =>
          LET mixed == SumTones(DOMAIN active_handlers,
                                Mixer(active_handlers, phases),
                                alert_handlers, cb_frames)
              peak == PeakOf(mixed, cb_frames)
          IN  /\ Len(outdata') = cb_frames
              /\ \A i \in 1..cb_frames : Abs(outdata'[i]) <= 1000
              /\ peak <= 1000 => outdata' = mixed
              /\ peak > 1000 =>
                    /\ \A i \in 1..cb_frames :
                          /\ Abs(outdata'[i] * peak - mixed[i] * 1000) < peak
                          /\ outdata'[i] * mixed[i] >= 0
                    /\ PeakOf(outdata', cb_frames) = 1000]_vars

\* C26 witness: two full-volume sine tones near their crest summed to more
\* than 1.0, and the buffer written peaks at exactly 1.0
C26_Witness ==
    /\ audio_pc = "idle"
    /\ cb_fresh
    /\ cb_lock_seen = "free"
    /\ DOMAIN active_handlers = {1, 2}
    /\ \A r \in {1, 2} : /\ alert_handlers[r].waveform = "sine"
                         /\ alert_handlers[r].volume = 100
    /\ PeakOf(SumTones({1, 2},
                       Mixer(active_handlers,
                             [id \in DOMAIN phases |-> phases[id] - cb_frames]),
                       alert_handlers, cb_frames), cb_frames) > 1000
    /\ PeakOf(outdata, Len(outdata)) = 1000

\* C27: every value a poll cycle publishes is (raw + 1) / 2 of the raw
\* reading of its axis: raw -1 gives 0, raw 0 gives 0.5, raw 1 gives 1, and
\* the value lies in [0, 1].
C27_PublishedIsNormalized ==
    \A i \in DOMAIN axis_values :
        LET r == axis_values[i]
        IN  r.cyc > 0 =>
              /\ 2 * r.v = r.raw + 100
              /\ r.v \in 0..100
              /\ r.raw = -100 => r.v = 0
              /\ r.raw = 0 => r.v = 50
              /\ r.raw = 100 => r.v = 100

\* C27 witness: a poll cycle published a fully released and a fully pressed
\* axis, and get_axis_values returned them as 0 and 1
C27_Witness ==
    /\ snap_fresh
    /\ Len(snapshot) = 2
    /\ snapshot[1].cyc > 0
    /\ snapshot[1].raw = -100 /\ snapshot[1].v = 0
    /\ snapshot[2].raw = 100 /\ snapshot[2].v = 100

\* ------------------------------------------- HandlerWidget driven as a component
\* The widgets of two handlers exist, the handlers evaluated at the axis value
\* and the tone of the triggered one started; the user clicks and drags on
\* their range sliders and commits text in their entry fields.
MaxEdits == 3
CanvasWidth == 120
SliderXs == {0, 40, 60, 130}
EntryTexts == {"abc", "-5", "50", "440", "2500"}

\* int(text): <<n>>, or <<>> when it raises ValueError
parse_int(text) ==
    CASE text = "-5" -> <<-5>>
      [] text = "50" -> <<50>>
      [] text = "440" -> <<440>>
      [] text = "2500" -> <<2500>>
      [] OTHER -> <<>>

\* a variant that lets the value through as typed
clamp_none(lo, hi, x) == x

\* max(lo, min(hi, x))
clamp(lo, hi, x) == Max(lo, Min(hi, x))

\* RangeSlider.__init__
RangeSlider(min_val, max_val) ==
    [min_val |-> min_val, max_val |-> max_val, dragging |-> "none",
     drag_start_x |-> 0, drag_start_min |-> 0, drag_start_max |-> 0]

value_to_x(v) ==
    IF CanvasWidth <= 1 THEN 0
    ELSE (v * (CanvasWidth - 20)) \div 100 + 10

x_to_value(x) ==
    IF CanvasWidth <= 20 THEN 0
    ELSE clamp(0, 100, TruncDiv((x - 10) * 100, CanvasWidth - 20))

\* a variant that moves a handle past the other one without pushing it
slider_update_value_no_push(s, x) ==
    CASE s.dragging = "min" ->
           [s EXCEPT !.min_val = Max(0, Min(100, x_to_value(x)))]
      [] s.dragging = "max" ->
           [s EXCEPT !.max_val = Max(0, Min(100, x_to_value(x)))]
      [] OTHER -> s

\* RangeSlider._update_value: the slider after the pointer moved to x
slider_update_value(s, x) ==
    CASE s.dragging = "min" ->
           LET new_val == Max(0, Min(100, x_to_value(x)))
           IN  [s EXCEPT !.max_val = IF new_val > @ THEN new_val ELSE @,
                         !.min_val = new_val]
      [] s.dragging = "max" ->
           LET new_val == Max(0, Min(100, x_to_value(x)))
           IN  [s EXCEPT !.min_val = IF new_val < @ THEN new_val ELSE @,
                         !.max_val = new_val]
      [] s.dragging = "range" ->
           LET dx == x - s.drag_start_x
               width == CanvasWidth - 20
           IN  IF width > 0
               THEN LET dv == TruncDiv(dx * 100, width)
                        range_size == s.drag_start_max - s.drag_start_min
                        new_min == s.drag_start_min + dv
                        new_max == s.drag_start_max + dv
                        low == IF new_min < 0
                               THEN <<0, range_size>>
                               ELSE <<new_min, new_max>>
                        high == IF low[2] > 100
                                THEN <<100 - range_size, 100>>
                                ELSE low
                    IN  [s EXCEPT !.min_val = high[1], !.max_val = high[2]]
               ELSE s
      [] OTHER -> s

\* the handler whose widget owns slider s, after command(min_val, max_val)
RangeStored(ref, s) ==
    [alert_handlers EXCEPT ![ref].min_threshold = s.min_val,
                           ![ref].max_threshold = s.max_val]

\* a RangeSlider event handler left slider s; fired: it ran _update_value,
\* which calls _on_range_change
SliderEvent(name, ref, s, fired) ==
    /\ ops < MaxEdits
    /\ CommitWidget(name, alert_handlers[ref].id,
                    IF fired
                    THEN on_handler_update(
                           WidgetState(RangeStored(ref, s), Now.mixer, <<>>),
                           handlers, 1)
                    ELSE Now,
                    handlers, value, entry_text,
                    [range_slider EXCEPT ![ref] = s])

\* RangeSlider._on_click
OnClick(ref, x) ==
    /\ ref \in Range(handlers)
    /\ LET s == range_slider[ref]
           dist_min == Abs(x - value_to_x(s.min_val))
           dist_max == Abs(x - value_to_x(s.max_val))
           grab(which) == [s EXCEPT !.dragging = which]
       IN  IF dist_min <= 10 /\ dist_min <= dist_max
           THEN SliderEvent("_on_click", ref, grab("min"), FALSE)
           ELSE IF dist_max <= 10
           THEN SliderEvent("_on_click", ref, grab("max"), FALSE)
           ELSE IF value_to_x(s.min_val) < x /\ x < value_to_x(s.max_val)
           THEN SliderEvent("_on_click", ref,
                            [s EXCEPT !.dragging = "range",
                                      !.drag_start_x = x,
                                      !.drag_start_min = s.min_val,
                                      !.drag_start_max = s.max_val],
                            FALSE)
           ELSE IF dist_min < dist_max
           THEN SliderEvent("_on_click", ref,
                            slider_update_value(grab("min"), x), TRUE)
           ELSE SliderEvent("_on_click", ref,
                            slider_update_value(grab("max"), x), TRUE)

\* RangeSlider._on_drag
OnDrag(ref, x) ==
    /\ ref \in Range(handlers)
    /\ LET s == range_slider[ref]
       IN  IF s.dragging # "none"
           THEN SliderEvent("_on_drag", ref, slider_update_value(s, x), TRUE)
           ELSE SliderEvent("_on_drag", ref, s, FALSE)

\* RangeSlider._on_release
OnRelease(ref) ==
    /\ ref \in Range(handlers)
    /\ SliderEvent("_on_release", ref,
                   [range_slider[ref] EXCEPT !.dragging = "none"], FALSE)

\* an entry callback caught ValueError: nothing is stored, nobody is told
EntryRejected(name, ref, text) ==
    /\ ops < MaxEdits
    /\ CommitWidget(name, alert_handlers[ref].id, Now, handlers, value, text,
                    range_slider)

\* an entry callback stored heap, set the sliders and called on_update
EntryStored(name, ref, text, heap, sliders) ==
    /\ ops < MaxEdits
    /\ CommitWidget(name, alert_handlers[ref].id,
                    on_handler_update(WidgetState(heap, Now.mixer, <<>>),
                                      handlers, 1),
                    handlers, value, text, sliders)

\* range_slider.set(min_threshold, max_threshold)
SliderSet(ref, heap) ==
    [range_slider EXCEPT ![ref].min_val = heap[ref].min_threshold,
                         ![ref].max_val = heap[ref].max_threshold]

OnMinEntry(ref, text) ==
    /\ ref \in Range(handlers)
    /\ LET parsed == parse_int(text)
           h == alert_handlers[ref]
       IN  IF parsed = <<>>
           THEN EntryRejected("_on_min_entry", ref, text)
           ELSE LET typed == clamp(0, 100, parsed[1])
                    v == IF typed > h.max_threshold THEN h.max_threshold
                         ELSE typed
                    heap == [alert_handlers EXCEPT ![ref].min_threshold = v]
                IN  EntryStored("_on_min_entry", ref, text, heap,
                                SliderSet(ref, heap))

OnMaxEntry(ref, text) ==
    /\ ref \in Range(handlers)
    /\ LET parsed == parse_int(text)
           h == alert_handlers[ref]
       IN  IF parsed = <<>>
           THEN EntryRejected("_on_max_entry", ref, text)
           ELSE LET typed == clamp(0, 100, parsed[1])
                    v == IF typed < h.min_threshold THEN h.min_threshold
                         ELSE typed
                    heap == [alert_handlers EXCEPT ![ref].max_threshold = v]
                IN  EntryStored("_on_max_entry", ref, text, heap,
                                SliderSet(ref, heap))

OnFreqEntry(ref, text) ==
    /\ ref \in Range(handlers)
    /\ LET parsed == parse_int(text)
       IN  IF parsed = <<>>
           THEN EntryRejected("_on_freq_entry", ref, text)
           ELSE EntryStored("_on_freq_entry", ref, text,
                            [alert_handlers EXCEPT ![ref].frequency =
                                 clamp(100, 2000, parsed[1])],
                            range_slider)

OnVolEntry(ref, text) ==
    /\ ref \in Range(handlers)
    /\ LET parsed == parse_int(text)
       IN  IF parsed = <<>>
           THEN EntryRejected("_on_vol_entry", ref, text)
           ELSE EntryStored("_on_vol_entry", ref, text,
                            [alert_handlers EXCEPT ![ref].volume =
                                 clamp(0, 100, parsed[1])],
                            range_slider)

\* two handlers as _add_handler and earlier edits left them
WidgetHandlers ==
    << AlertHandler(1),
       [AlertHandler(2) EXCEPT !.min_threshold = 30, !.max_threshold = 70] >>

WidgetInit ==
    /\ mixer_lock = "free"
    /\ device_change_pending = FALSE
    /\ stream = 1
    /\ open_streams = {1}
    /\ streams_made = 1
    /\ AudioInit
    /\ ControlInit
    /\ SamplerInit
    /\ FnInit
    /\ value \in {50, 100}
    /\ handlers = <<1, 2>>
    /\ LET evaluated == update_value_loop(
                           WidgetState(WidgetHandlers,
                                       Mixer(EmptyMap, EmptyMap), <<>>),
                           handlers, 1, value)
       IN  /\ alert_handlers = evaluated.heap
           /\ active_handlers = evaluated.mixer.active
           /\ phases = evaluated.mixer.phases
    /\ entry_text = ""
    /\ range_slider = [ref \in DOMAIN WidgetHandlers |->
                          RangeSlider(WidgetHandlers[ref].min_threshold,
                                      WidgetHandlers[ref].max_threshold)]

WidgetNext ==
    \/ \E ref \in 1..2, x \in SliderXs : OnClick(ref, x)
    \/ \E ref \in 1..2, x \in SliderXs : OnDrag(ref, x)
    \/ \E ref \in 1..2 : OnRelease(ref)
    \/ \E ref \in 1..2, text \in EntryTexts : OnMinEntry(ref, text)
    \/ \E ref \in 1..2, text \in EntryTexts : OnMaxEntry(ref, text)
    \/ \E ref \in 1..2, text \in EntryTexts : OnFreqEntry(ref, text)
    \/ \E ref \in 1..2, text \in EntryTexts : OnVolEntry(ref, text)

WidgetSpec == WidgetInit /\ [][WidgetNext]_vars

\* ------------------------------------------ the axis widgets of the application
\* The operations of the control thread that create, fill and destroy the
\* axis widget, next to the tick and the edits of its handlers.

\* a variant that destroys the widget and stops nothing
cleanup_loop_none(st, hs, i) == st

\* AxisWidget.cleanup: stop_handler for every handler with is_triggered
RECURSIVE cleanup_loop(_, _, _)
cleanup_loop(st, hs, i) ==
    IF i > Len(hs) THEN st
    ELSE LET h == st.heap[hs[i]]
         IN  IF h.is_triggered
             THEN cleanup_loop(
                    WidgetState(st.heap, stop_handler(st.mixer, h.id),
                                Append(st.calls, Call("stop", h.id))),
                    hs, i + 1)
             ELSE cleanup_loop(st, hs, i + 1)

\* _apply_settings: stop_handler for every handler of the widget
RECURSIVE stop_all(_, _, _)
stop_all(st, hs, i) ==
    IF i > Len(hs) THEN st
    ELSE LET id == st.heap[hs[i]].id
         IN  stop_all(WidgetState(st.heap, stop_handler(st.mixer, id),
                                  Append(st.calls, Call("stop", id))),
                      hs, i + 1)

\* the handler entries of a saved settings file
SettingsData ==
    {[min_threshold |-> w[1], max_threshold |-> w[2], frequency |-> f,
      volume |-> 50, waveform |-> "sine"] :
        w \in {p \in Thresholds \X Thresholds : p[1] <= p[2]},
        f \in Frequencies}
SettingsLists == {<<>>} \cup {<<data>> : data \in SettingsData}

\* AlertHandler(min_threshold=..., ...): a new id, is_triggered False
HandlerFromSettings(id, data) ==
    [AlertHandler(id) EXCEPT !.min_threshold = data.min_threshold,
                             !.max_threshold = data.max_threshold,
                             !.frequency = data.frequency,
                             !.volume = data.volume,
                             !.waveform = data.waveform]

\* _apply_settings for the axis: the handlers are stopped and dropped, the
\* handlers of the file take their place
ApplySettings(handlers_data) ==
    /\ Len(alert_handlers) + Len(handlers_data) <= MaxHandlers
    /\ LET stopped == stop_all(Now, handlers, 1)
           base == Len(alert_handlers)
           made == [k \in 1..Len(handlers_data) |->
                       HandlerFromSettings(base + k, handlers_data[k])]
       IN  Commit("_apply_settings", 0,
                  WidgetState(stopped.heap \o made, stopped.mixer, stopped.calls),
                  [k \in 1..Len(handlers_data) |-> base + k], value)

\* _clear_axes: widget.cleanup(), widget.destroy(), axis_widgets.clear()
ClearAxes ==
    Commit("_clear_axes", 0, cleanup_loop(Now, handlers, 1), <<>>, 0)

\* _create_axis_widgets after a device was selected: the old widget is
\* cleaned up and destroyed, the new one has no handlers and value 0.0
CreateAxisWidgets ==
    Commit("_create_axis_widgets", 0, cleanup_loop(Now, handlers, 1), <<>>, 0)

AxesNext ==
    \/ \E v \in AxisInputs : UpdateValue(v)
    \/ AddHandler
    \/ \E ref \in 1..MaxHandlers : DeleteHandler(ref)
    \/ \E ref \in 1..MaxHandlers, a, b \in Thresholds : OnRangeChange(ref, a, b)
    \/ \E ref \in 1..MaxHandlers, f \in Frequencies : OnFreqSliderChange(ref, f)
    \/ \E handlers_data \in SettingsLists : ApplySettings(handlers_data)
    \/ ClearAxes
    \/ CreateAxisWidgets

AxesSpec == Init /\ [][AxesNext]_vars

\* --------------------------------------------------- handler ids as drawn
\* AlertHandler() takes the first eight hex digits of a random uuid as its
\* id; nothing compares it with the ids of the handlers that exist.
HandlerIds == {1, 2}

\* _add_handler, the id of the new handler drawn
AddHandlerDrawn(id) ==
    /\ Len(alert_handlers) < MaxHandlers
    /\ Commit("_add_handler", id,
              WidgetState(Append(alert_handlers, AlertHandler(id)),
                          Now.mixer, <<>>),
              Append(handlers, Len(alert_handlers) + 1), value)

IdNext ==
    \/ \E id \in HandlerIds : AddHandlerDrawn(id)
    \/ \E v \in AxisInputs : UpdateValue(v)
    \/ \E ref \in 1..MaxHandlers : DeleteHandler(ref)
    \/ \E ref \in 1..MaxHandlers, lo \in Thresholds, hi \in Thresholds :
          OnRangeChange(ref, lo, hi)
    \/ \E ref \in 1..MaxHandlers, f \in Frequencies : OnFreqSliderChange(ref, f)

IdSpec == Init /\ [][IdNext]_vars

EntryOps == {"_on_min_entry", "_on_max_entry", "_on_freq_entry", "_on_vol_entry"}
EntryStep == ops' = ops + 1 /\ last_op'.op \in EntryOps
EntryField(h, op) ==
    CASE op = "_on_min_entry" -> h.min_threshold
      [] op = "_on_max_entry" -> h.max_threshold
      [] op = "_on_freq_entry" -> h.frequency
      [] OTHER -> h.volume
EntryLow(op) == IF op = "_on_freq_entry" THEN 100 ELSE 0
EntryHigh(op) == IF op = "_on_freq_entry" THEN 2000 ELSE 100

\* C28: committing text in the min, max, frequency or volume entry field:
\* when the text does not parse as an integer, no handler field changes, the
\* mixer is not touched and no update is issued; when it parses, the field
\* ends inside its valid range (0..100 percent, 100..2000 Hz), the frequency
\* and the volume equal to the typed number clamped to that range, and every
\* triggered handler is updated in the mixer.
C28_EntryClampsOrKeeps ==
    [][EntryStep =>
         LET op == last_op'.op
             ref == CHOOSE r \in DOMAIN alert_handlers :
                        alert_handlers[r].id = last_op'.id
             typed == parse_int(entry_text')
             field == EntryField(alert_handlers'[ref], op)
         IN  IF typed = <<>>
             THEN /\ alert_handlers' = alert_handlers
                  /\ calls' = <<>>
                  /\ active_handlers' = active_handlers
                  /\ phases' = phases
             ELSE /\ field \in EntryLow(op)..EntryHigh(op)
                  /\ op \in {"_on_freq_entry", "_on_vol_entry"} =>
                        /\ typed[1] \in EntryLow(op)..EntryHigh(op) =>
                              field = typed[1]
                        /\ typed[1] < EntryLow(op) => field = EntryLow(op)
                        /\ typed[1] > EntryHigh(op) => field = EntryHigh(op)
                  /\ \A r \in DOMAIN alert_handlers :
                        alert_handlers[r].is_triggered =>
                          \E i \in DOMAIN calls' :
                              calls'[i] = Call("update", alert_handlers[r].id)
    ]_vars

\* C28 witness: 2500 was committed in the frequency entry of a triggered
\* handler, which now sounds at 2000 Hz, and the mixer was updated
C28_Witness ==
    /\ last_op.op = "_on_freq_entry"
    /\ entry_text = "2500"
    /\ \E r \in DOMAIN alert_handlers :
          /\ alert_handlers[r].id = last_op.id
          /\ alert_handlers[r].is_triggered
          /\ alert_handlers[r].frequency = 2000
          /\ Call("update", last_op.id) \in Range(calls)

\* C30: whatever the user did on the range sliders (dragging the min handle,
\* the max handle or the whole range) and in the min and max entry fields,
\* every handler has 0 <= min_threshold <= max_threshold <= 1.
C30_RangeStaysOrdered ==
    \A ref \in Range(handlers) :
        /\ 0 <= alert_handlers[ref].min_threshold
        /\ alert_handlers[ref].min_threshold <= alert_handlers[ref].max_threshold
        /\ alert_handlers[ref].max_threshold <= 100

\* C30 witness: the whole range 0.3..0.7 was dragged past the right end of
\* the slider and stopped at 0.6..1.0
C30_Witness ==
    /\ last_op.op = "_on_drag"
    /\ \E ref \in Range(handlers) :
          /\ alert_handlers[ref].id = last_op.id
          /\ range_slider[ref].dragging = "range"
          /\ range_slider[ref].drag_start_min = 30
          /\ range_slider[ref].drag_start_max = 70
          /\ alert_handlers[ref].min_threshold = 60
          /\ alert_handlers[ref].max_threshold = 100

\* C29: no two handlers that exist at the same time have the same id, and
\* every key of the mixer's active set is the id of exactly one of them.
C29_IdsUnique ==
    /\ \A r1 \in Range(handlers), r2 \in Range(handlers) :
          r1 # r2 => alert_handlers[r1].id # alert_handlers[r2].id
    /\ \A id \in DOMAIN active_handlers :
          Cardinality({r \in Range(handlers) : alert_handlers[r].id = id}) = 1

\* the ids the last control-thread operation started that were not active
StartedIds ==
    {calls[i].id : i \in {j \in DOMAIN calls : calls[j].op = "start"}}
        \ DOMAIN pre_mixer.active

\* C31: start_handler for an id that is not active sets its phase accumulator
\* to 0 whatever it held, also after an earlier stop_handler of that id, and
\* the first buffer synthesized afterwards is computed from phase 0: the
\* id's accumulator is 0 when the callback mixes and frames behind it.
C31_StartBeginsAtPhaseZero ==
    [][/\ ops' = ops + 1 =>
            \A i \in DOMAIN calls' :
                (calls'[i].op = "start" /\ calls'[i].id \notin DOMAIN active_handlers)
                    => /\ calls'[i].id \in DOMAIN active_handlers'
                       /\ phases'[calls'[i].id] = 0
       /\ (audio_pc = "mixing" /\ audio_pc' = "idle" /\ ~cb_fresh) =>
            \A id \in StartedIds \cap DOMAIN active_handlers :
                /\ phases[id] = 0
                /\ phases'[id] = cb_frames % sample_rate
                /\ outdata' = mix_buffer(
                       Mixer(active_handlers, [phases EXCEPT ![id] = 0]),
                       alert_handlers, cb_frames)
    ]_vars

\* C31 witness: a tone played, was stopped with its accumulator advanced and
\* was started again; the one buffer synthesized since began at phase 0
C31_Witness ==
    /\ cb_fresh
    /\ audio_pc = "idle"
    /\ \E id \in StartedIds :
          /\ id \in DOMAIN pre_mixer.phases
          /\ pre_mixer.phases[id] > 0
          /\ id \in DOMAIN active_handlers
          /\ phases[id] = cb_frames
          /\ outdata = mix_buffer(Mixer(active_handlers, [phases EXCEPT ![id] = 0]),
                                  alert_handlers, cb_frames)

\* the ids of the existing handlers whose is_triggered is true
TriggeredIds ==
    {alert_handlers[r].id : r \in {x \in Range(handlers) : alert_handlers[x].is_triggered}}

C33_SelectedMeansPolling ==
    (app_pc = "idle" /\ js_pc = "idle" /\ current_device_selection # 0) =>
        /\ running
        /\ thread # 0
        /\ is_alive(thread)

\* C34: once select_device has returned n > 0, and until the next
\* JoystickReader method, every array get_axis_values returns has length n
\* and holds values a poll cycle read from the selected device: none read
\* from another device and not the placeholder of select_device.
C34_SnapshotOfSelectedDevice ==
    (snap_fresh /\ js_pc = "idle" /\ js_last = "select_device" /\ js_ret > 0) =>
        /\ Len(snapshot) = js_ret
        /\ \A i \in DOMAIN snapshot :
              /\ snapshot[i].cyc > 0
              /\ snapshot[i].dev = joystick

\* C35: at most one output stream is open at any time, whatever reinitialize,
\* check_device_change and cleanup ran and whatever the teardown raised: a
\* new stream is opened only when the stream opened before it is closed.
C35_OneStreamOpen ==
    /\ Cardinality(open_streams) <= 1
    /\ stream # 0 => open_streams = {stream}

\* C36: no step of reinitialize or of check_device_change, and no step the
\* audio callback takes while one of them is under way, changes the active
\* set or a stored handler, whether the new stream opens or not.
C36_ReopenKeepsActive ==
    [][Reopening =>
          /\ active_handlers' = active_handlers
          /\ alert_handlers' = alert_handlers]_vars

\* C36 witness: check_device_change returned without a stream (the open
\* failed) while two tones were active, and both still are
C36_Witness ==
    /\ mixer_pc = "idle"
    /\ last_op.op = "check_device_change"
    /\ stream = 0
    /\ Cardinality(DOMAIN pre_mixer.active) = 2
    /\ active_handlers = pre_mixer.active

\* C37: no device-change notification is lost: whenever a notification has
\* arrived (between two polls, between the test and the clear of the flag, or
\* while a reopen is in progress), check_device_change later starts a reopen,
\* provided the control loop keeps polling
C37_NotificationServed == notified ~> ~notified

\* a notification arrived while a reopen was in progress
C37_Witness ==
    /\ notified
    /\ device_change_pending
    /\ mixer_pc \in {"terminate", "acquire", "locked", "release"}

\* C38: select_device, clear_device, get_devices and cleanup always return:
\* a method of the reader that has been entered reaches its return, although
\* it joins the polling thread while holding the lock that thread needs to
\* publish; and a polling thread that waits for the lock gets it
AtPublish(t) == t \in DOMAIN threads /\ threads[t].pc = "publish"

C38_ReaderCallsReturn ==
    /\ (js_pc # "idle") ~> (js_pc = "idle")
    /\ \A t \in 1..MaxThreads : AtPublish(t) ~> ~AtPublish(t)

\* the control thread holds the lock and joins a polling thread that waits
\* for that lock
C38_Witness ==
    /\ js_pc = "join"
    /\ js_lock = "control"
    /\ thread # 0
    /\ threads[thread].pc = "publish"

\* C39: the audio callback releases the mixer lock on every path on which
\* it acquired it, also when the synthesis raises: the lock is held for the
\* audio thread exactly while the callback is inside its try block. So under
\* fair scheduling every call of start_handler, stop_handler, update_handler,
\* reinitialize and cleanup that waits for the lock acquires it, and every
\* call completes.
C39_LockReleasedCallsComplete ==
    /\ [](mixer_lock = "audio" <=> audio_pc = "mixing")
    /\ (mixer_pc = "acquire") ~> (mixer_pc = "locked")
    /\ (mixer_pc # "idle") ~> (mixer_pc = "idle")

\* the only callback that took the lock raised in its synthesis (nothing was
\* ever written to outdata), and a method has taken the lock since
C39_Witness ==
    /\ mixer_pc = "locked"
    /\ mixer_lock = "control"
    /\ audio_pc = "idle"
    /\ buffers = 1
    /\ outdata = <<>>
    /\ DOMAIN active_handlers # {}

====
